---- MODULE Spec2Model ----
(***************************************************************************)
(* mspandas: rendering a pandas DataFrame into a Word table                *)
(* (pandasDOC.Table) and into a PowerPoint table (pandasPPT.Handler).      *)
(*                                                                         *)
(* A DataFrame is a grid of values with a row axis and a column axis; an   *)
(* axis holds one label tuple per position (one part per level), the level *)
(* names and whether it is a pandas MultiIndex.  DataFrame objects live in *)
(* a heap (a sequence of frames, a reference is a position in it), so that *)
(* an assignment through one reference is seen through every alias of it.  *)
(***************************************************************************)
EXTENDS Integers, Sequences, FiniteSets, TLC

\* ------------------------------------------------------------------ bounds
MaxRows == 2
MaxCols == 2
MaxLevels == 2
MaxTables == 2
MaxCalls == 2

\* ------------------------------------------------------------------ values
\* A scalar: a number, a string, a null (NaN) or None.
NumV(n) == [t |-> "num", n |-> n, s |-> ""]
StrV(s) == [t |-> "str", n |-> 0, s |-> s]
NaN == [t |-> "nan", n |-> 0, s |-> ""]
NoneV == [t |-> "none", n |-> 0, s |-> ""]

Digits == <<"0", "1", "2", "3", "4", "5", "6", "7", "8", "9">>

RECURSIVE Str(_)
\* str(n) of a non-negative integer
Str(n) == IF n < 10 THEN Digits[n + 1] ELSE Str(n \div 10) \o Digits[(n % 10) + 1]

\* astype(np.unicode) / str(x) of a scalar
ToText(v) ==
  CASE v.t = "num" -> Str(v.n)
    [] v.t = "str" -> v.s
    [] v.t = "nan" -> "nan"
    [] OTHER -> "None"

IsNull(v) == v.t \in {"nan", "none"}

\* fillna(x)
FillNa(v, x) == IF IsNull(v) THEN x ELSE v

\* Op applied to the value of x, which is computed once.
Let(x, Op(_)) == CHOOSE y \in {Op(v) : v \in {x}} : TRUE

\* Sequencing of steps that may raise: Op applied to the result x of a step
\* when it raised nothing, x itself when it raised.
Then(x, Op(_)) == CHOOSE y \in {IF v.err # "none" THEN v ELSE Op(v) : v \in {x}} : TRUE

RECURSIVE SumSeq(_)
SumSeq(s) == IF Len(s) = 0 THEN 0 ELSE Head(s) + SumSeq(Tail(s))

RECURSIVE MaxSeq(_)
MaxSeq(s) == IF Len(s) = 1 THEN s[1]
             ELSE LET m == MaxSeq(Tail(s)) IN IF s[1] > m THEN s[1] ELSE m

RECURSIVE MinSeq(_)
MinSeq(s) == IF Len(s) = 1 THEN s[1]
             ELSE LET m == MinSeq(Tail(s)) IN IF s[1] < m THEN s[1] ELSE m

\* The aggregation functions a totals method or an aggmap entry may name.
AggMethods == {"sum", "max", "min"}

\* Series.agg(method) over a column whose nulls were filled with 0
Agg(method, xs) ==
  CASE method = "sum" -> SumSeq(xs)
    [] method = "max" -> MaxSeq(xs)
    [] OTHER -> MinSeq(xs)

\* ------------------------------------------------------------------ axes and frames
\* An axis: lab[j] is the label tuple of position j (one part per level),
\* names[k] the name of level k, multi whether it is a pandas MultiIndex.
MkAxis(lab, names, multi) == [lab |-> lab, names |-> names, multi |-> multi]

NLevels(ax) == Len(ax.names)

\* get_level_values(n)[j]
LevelValue(ax, n, j) == ax.lab[j][n]

\* What iterating an axis yields at position j, and so the key a dict is
\* looked up with: the scalar label of a flat Index, the tuple of a MultiIndex.
KeyOf(ax, j) == [tuple |-> ax.multi, parts |-> ax.lab[j]]

ScalarKey(v) == [tuple |-> FALSE, parts |-> <<v>>]

MkFrame(vals, idx, cols) == [vals |-> vals, idx |-> idx, cols |-> cols]

NRows(f) == Len(f.idx.lab)
NCols(f) == Len(f.cols.lab)

\* dtype of a column: numeric when every value is a number or NaN, datetime
\* when every value is a datetime, object otherwise
DTypeOf(f, c) ==
  IF \A r \in 1..NRows(f) : f.vals[r][c].t \in {"num", "nan"} THEN "number"
  ELSE IF \A r \in 1..NRows(f) : f.vals[r][c].t = "dt" THEN "datetime"
  ELSE "object"

\* DataFrame.T
Transpose(f0) ==
  Let(f0, LAMBDA f:
    MkFrame([c \in 1..NCols(f) |-> [r \in 1..NRows(f) |-> f.vals[r][c]]], f.cols, f.idx))

\* ------------------------------------------------------------------ the heap
\* DataFrame.copy(): a new object with the same content.
DfCopyAlias(h, ref) == [h |-> h, r |-> ref]

DfCopy(h, ref) == [h |-> Append(h, h[ref]), r |-> Len(h) + 1]

\* The result of a method: the heap after it, the reference it returns and
\* the exception it raised ("none" when it returned).
Ret(h, r) == [h |-> h, r |-> r, err |-> "none"]
Raise(h, e) == [h |-> h, r |-> 0, err |-> e]

\* A new DataFrame object (the result of concat, reset_index, fillna, ...)
\* is returned.
RetNew(h, f) == [h |-> Append(h, f), r |-> Len(h) + 1, err |-> "none"]

\* ------------------------------------------------------------------ pandas operations used by Table
\* A dict: a function from keys to values; d.get(k, default)
DictGet(d, k, default) == IF k \in DOMAIN d THEN d[k] ELSE default

EmptyDict == [k \in {} |-> "sum"]

\* The label reset_index gives the column made from index level k.
ResetName(ax, k) ==
  IF ax.names[k] # NoneV THEN ax.names[k]
  ELSE IF ax.multi THEN StrV("level_" \o Str(k - 1)) ELSE StrV("index")

\* DataFrame.reset_index(): the index levels become the first columns, the
\* index a RangeIndex.  Under a column MultiIndex the new labels are padded
\* with '' on the lower levels.
ResetIndex(f0) ==
  Let(f0, LAMBDA f:
    MkFrame([r \in 1..NRows(f) |-> f.idx.lab[r] \o f.vals[r]],
            MkAxis([r \in 1..NRows(f) |-> <<NumV(r - 1)>>], <<NoneV>>, FALSE),
            MkAxis([k \in 1..NLevels(f.idx) |-> [l \in 1..NLevels(f.cols) |->
                      IF l = 1 THEN ResetName(f.idx, k) ELSE StrV("")]] \o f.cols.lab,
                   f.cols.names, f.cols.multi)))

\* The totals row put first instead of last
ConcatRowFirst(f0, lab, row) ==
  Let(f0, LAMBDA f:
    MkFrame(<<row>> \o f.vals,
            MkAxis(<<lab>> \o f.idx.lab, [k \in 1..NLevels(f.idx) |-> NoneV], f.idx.multi),
            f.cols))

\* pd.concat([data, c_totals], axis=0) of a frame and a one-row frame over
\* the same columns: the row is appended; the level names of the result are
\* those both agree on.
ConcatRow(f0, lab, row) ==
  Let(f0, LAMBDA f:
    MkFrame(Append(f.vals, row),
            MkAxis(Append(f.idx.lab, lab), [k \in 1..NLevels(f.idx) |-> NoneV], f.idx.multi),
            f.cols))

\* The position of the first column labelled lab (0 when there is none)
ColOf(f, lab) ==
  IF \E c \in 1..NCols(f) : f.cols.lab[c] = lab
  THEN CHOOSE c \in 1..NCols(f) : f.cols.lab[c] = lab /\ \A d \in 1..(c - 1) : f.cols.lab[d] # lab
  ELSE 0

\* DataFrame.reindex(labels, axis=1): the columns in the order of labels
ReindexCols(f0, labels0) ==
  Let(f0, LAMBDA f: Let(labels0, LAMBDA labels:
    Let([c \in 1..Len(labels) |-> ColOf(f, labels[c])], LAMBDA at:
      MkFrame([r \in 1..NRows(f) |->
                [c \in 1..Len(labels) |-> IF at[c] = 0 THEN NaN ELSE f.vals[r][at[c]]]],
              f.idx,
              MkAxis(labels, f.cols.names, f.cols.multi)))))

\* ------------------------------------------------------------------ Table.add_totals
AxisIsColumns(axis) == axis \in {"1", "columns"}
\* (an axis test with no else branch left)
AxisIsIndexOrOther(axis) == axis \notin {"1", "columns"}

AxisIsIndex(axis) == axis \in {"0", "index"}

\* The aggregation add_totals applies to column c of data:
\* totals_aggmap.get(col, totals_method)
TotalsMethodIgnoringMap(data, c, totals_method, totals_aggmap) == totals_method

TotalsMethodFor(data, c, totals_method, totals_aggmap) ==
  DictGet(totals_aggmap, KeyOf(data.cols, c), totals_method)

\* data.fillna(0).agg({col: ...}): one total per column
ColumnTotals(data, totals_method, totals_aggmap) ==
  [c \in 1..NCols(data) |->
    NumV(Agg(TotalsMethodFor(data, c, totals_method, totals_aggmap),
             [r \in 1..NRows(data) |-> FillNa(data.vals[r][c], NumV(0)).n]))]

\* The index label of the totals row: totals_label, padded with ' ' on the
\* lower levels of a MultiIndex.
TotalsRowLabel(data, totals_label) ==
  [k \in 1..NLevels(data.idx) |-> IF k = 1 THEN totals_label ELSE StrV(" ")]

\* add_totals on the frame it totals (data, or data.T for axis 1)
TotalsAppended(data0, totals_label, totals_method, totals_aggmap) ==
  Let(data0, LAMBDA data:
    Let(ReindexCols(ConcatRow(data, TotalsRowLabel(data, totals_label),
                              ColumnTotals(data, totals_method, totals_aggmap)),
                    data.cols.lab),
        LAMBDA re: [re EXCEPT !.idx.names = data.idx.names]))

\* Table.add_totals(data=h[ref], ...): a new DataFrame
add_totals(h, ref, totals_label, totals_method, totals_aggmap, axis) ==
  IF AxisIsColumns(axis)
    THEN Let(TotalsAppended(Transpose(h[ref]), totals_label, totals_method, totals_aggmap),
             LAMBDA res: RetNew(h \o <<Transpose(h[ref]), res>>, Transpose(res)))
  ELSE IF AxisIsIndex(axis)
    THEN RetNew(h, TotalsAppended(h[ref], totals_label, totals_method, totals_aggmap))
  ELSE Raise(h, "ValueError")

\* ------------------------------------------------------------------ Table.transform
\* data.T.reset_index().T: the header levels become the first rows.
HeaderToRows(f) == Transpose(ResetIndex(Transpose(f)))

\* Table.transform(data=h[ref], header, index, keep_names)
transform(h, ref, header, index, keep_names) ==
  IF keep_names \notin {"index", "columns"} THEN Raise(h, "ValueError")
  ELSE IF ~index /\ ~header THEN Ret(h, ref)
  ELSE IF keep_names = "index"
    THEN Let(IF index THEN ResetIndex(h[ref]) ELSE h[ref], LAMBDA d1:
           RetNew(h, IF header THEN HeaderToRows(d1) ELSE d1))
  ELSE Let(IF header THEN HeaderToRows(h[ref]) ELSE h[ref], LAMBDA d1:
         RetNew(h, IF index THEN ResetIndex(d1) ELSE d1))

\* ------------------------------------------------------------------ Table.format_index
\* dtype_format: a sequence of entries [dtype, sfx]; an entry stands for the
\* format string '{}' + sfx of the values of that dtype.  << >> is None.
NoFormat == << >>

NumberFormat(sfx) == <<[dtype |-> "number", sfx |-> sfx]>>

\* fmt.format(x)
Format(v, sfx) == StrV(ToText(v) \o sfx)

\* dtype of the values of level n of an axis
LevelDType(ax, n) ==
  IF \A j \in 1..Len(ax.lab) : ax.lab[j][n].t \in {"num", "nan"} THEN "number"
  ELSE IF \A j \in 1..Len(ax.lab) : ax.lab[j][n].t = "dt" THEN "datetime"
  ELSE "object"

\* What the dtype_format loop of format_index does to one level: "ok" when no
\* entry applies, or the exception.  vals.format(fmt) of a numeric level
\* returns a list, which has no astype; a datetime level is strftime-formatted.
LevelFormatOutcome(ax, n, dtype_format) ==
  IF \E e \in 1..Len(dtype_format) :
       /\ dtype_format[e].dtype = LevelDType(ax, n)
       /\ dtype_format[e].dtype \notin {"number", "datetime"}
    THEN "NotImplementedError"
  ELSE IF \E e \in 1..Len(dtype_format) :
       /\ dtype_format[e].dtype = LevelDType(ax, n)
       /\ dtype_format[e].dtype = "number"
    THEN "AttributeError"
  ELSE "ok"

\* The axis with every level's values as unicode strings, as a MultiIndex
\* (pd.MultiIndex.from_arrays, also for a single level).
FormattedAxis(ax) ==
  MkAxis([j \in 1..Len(ax.lab) |-> [n \in 1..NLevels(ax) |-> StrV(ToText(ax.lab[j][n]))]],
         ax.names, TRUE)

\* Table.format_index(data=h[ref], dtype_format, axis): assigns the new axis
\* to data in place and returns data.
format_index(h, ref, dtype_format, axis) ==
  IF ~(AxisIsColumns(axis) \/ AxisIsIndex(axis)) THEN Raise(h, "ValueError")
  ELSE Let(IF AxisIsColumns(axis) THEN h[ref].cols ELSE h[ref].idx, LAMBDA ax:
       Let({n \in 1..NLevels(ax) : LevelFormatOutcome(ax, n, dtype_format) # "ok"}, LAMBDA bad:
         IF bad # {}
           THEN Raise(h, LevelFormatOutcome(ax, CHOOSE n \in bad : \A m \in bad : n <= m, dtype_format))
         ELSE IF AxisIsColumns(axis)
           THEN Ret([h EXCEPT ![ref].cols = FormattedAxis(ax)], ref)
         ELSE Ret([h EXCEPT ![ref].idx = FormattedAxis(ax)], ref)))

\* ------------------------------------------------------------------ Table.format_values
\* Whether an entry of dtype_format applies to column c (np.issubdtype)
EntryApplies(f, c, e) == e.dtype = DTypeOf(f, c)

RECURSIVE FormatColumns(_, _, _)
\* for col,x in data.iteritems(): data.loc[:,col] = x.apply(fmt.format), in
\* place, for one entry e of dtype_format.  Returns [f, err].
FormatColumns(lp, e, c) ==
  IF lp.err # "none" \/ c > NCols(lp.f) THEN lp
  ELSE IF ~EntryApplies(lp.f, c, e) THEN FormatColumns(lp, e, c + 1)
  ELSE IF e.dtype \notin {"number", "datetime"}
    THEN [lp EXCEPT !.err = "NotImplementedError"]
  ELSE Let([lp EXCEPT !.f.vals = [r \in 1..NRows(lp.f) |->
                [lp.f.vals[r] EXCEPT ![c] = Format(lp.f.vals[r][c], e.sfx)]]],
           LAMBDA lp1: FormatColumns(lp1, e, c + 1))

RECURSIVE FormatLoop(_, _, _)
\* for dtype,fmt in dtype_format.items(): ...
FormatLoop(lp, dtype_format, e) ==
  IF lp.err # "none" \/ e > Len(dtype_format) THEN lp
  ELSE Let(FormatColumns(lp, dtype_format[e], 1), LAMBDA lp1: FormatLoop(lp1, dtype_format, e + 1))

\* data.fillna(na_rep).astype(np.unicode)
FilledText(f, na_rep) ==
  [f EXCEPT !.vals = [r \in 1..NRows(f) |-> [c \in 1..NCols(f) |->
      StrV(ToText(FillNa(f.vals[r][c], na_rep)))]]]

\* Table.format_values(data=h[ref], dtype_format) with self.na_rep
format_values(h, ref, dtype_format, na_rep) ==
  Let(FormatLoop([f |-> h[ref], err |-> "none"], dtype_format, 1), LAMBDA lp:
    IF lp.err # "none" THEN Raise([h EXCEPT ![ref] = lp.f], lp.err)
    ELSE RetNew([h EXCEPT ![ref] = lp.f], FilledText(lp.f, na_rep)))

\* ------------------------------------------------------------------ the Word document
\* A docx table: rows x cols cells and the merged spans.  A cell holds its
\* text, whether its first paragraph has a run, the run's font size (0 when
\* none is set) and boldness, whether it is shaded, its paragraph alignment
\* and how many times convert's loop has set its text.
BlankCell ==
  [text |-> "", run |-> FALSE, size |-> 0, bold |-> FALSE, fill |-> FALSE,
   align |-> "none", writes |-> 0]

\* doc.add_table(rows, cols)
NewTable(rows, cols) ==
  [rows |-> rows, cols |-> cols,
   cells |-> [i \in 1..rows |-> [j \in 1..cols |-> BlankCell]],
   merges |-> {}]

\* Whether table.cell(i, j) exists (i, j count from 0)
InTable(t, i, j) == i \in 0..(t.rows - 1) /\ j \in 0..(t.cols - 1)

Span(r1, c1, r2, c2) == [r1 |-> r1, c1 |-> c1, r2 |-> r2, c2 |-> c2]

InSpan(sp, i, j) == sp.r1 <= i /\ i <= sp.r2 /\ sp.c1 <= j /\ j <= sp.c2

\* table.cell(i, j) of a cell inside a merged span is the span's origin cell.
Origin(t, i, j) ==
  IF \E sp \in t.merges : InSpan(sp, i, j)
    THEN LET sp == CHOOSE x \in t.merges : InSpan(x, i, j) IN <<sp.r1, sp.c1>>
  ELSE <<i, j>>

CellAt(t, i, j) == t.cells[Origin(t, i, j)[1] + 1][Origin(t, i, j)[2] + 1]

SetCellAt(t, i, j, cell) ==
  [t EXCEPT !.cells[Origin(t, i, j)[1] + 1][Origin(t, i, j)[2] + 1] = cell]

\* The state a Table method works on: the heap, the document's tables, which
\* of them self.table is (0 for None), the reference the method returns, the
\* exception it raised and the merges it made, in order.
MkW(h, doc, cur, r, err, log) ==
  [h |-> h, doc |-> doc, cur |-> cur, r |-> r, err |-> err, log |-> log]

Fail(w, e) == [w EXCEPT !.err = e, !.r = 0]

\* Colours by what the code tells apart: None, an RGB tuple, a hex string,
\* a theme-colour enum value, or a value of another type.
ColorKinds == {"none", "tuple", "str", "enum", "other"}

\* docFunctions.format_cell(cell, ...) on table.cell(i, j): [t, err]
format_cell(t, i, j, font_size, font_color, bold, fill, fill_color) ==
  IF fill /\ fill_color \notin {"enum", "tuple", "str"} THEN [t |-> t, err |-> "ValueError"]
  ELSE LET c0 == CellAt(t, i, j)
           c1 == [c0 EXCEPT !.fill = (@ \/ fill), !.run = TRUE,
                            !.size = IF font_size # 0 THEN font_size ELSE @]
           c2 == [c1 EXCEPT !.bold = (@ \/ bold)]
       IN IF font_color \notin {"none", "tuple", "str"}
            THEN [t |-> SetCellAt(t, i, j, c1), err |-> "ValueError"]
          ELSE [t |-> SetCellAt(t, i, j, c2), err |-> "none"]

\* cell.text = s: one paragraph with one run that holds s
WithText(cell, s) ==
  [cell EXCEPT !.text = s, !.run = TRUE, !.size = 0, !.bold = FALSE, !.align = "none"]

RECURSIVE JoinLines(_)
\* '\n'.join of the non-empty texts
JoinLines(texts) ==
  IF Len(texts) = 0 THEN ""
  ELSE IF Head(texts) = "" THEN JoinLines(Tail(texts))
  ELSE IF JoinLines(Tail(texts)) = "" THEN Head(texts)
  ELSE Head(texts) \o "\n" \o JoinLines(Tail(texts))

\* The texts of the cells of a span, row by row
SpanTexts(t, sp) ==
  LET w == sp.c2 - sp.c1 + 1
      n == (sp.r2 - sp.r1 + 1) * w
  IN [q \in 1..n |-> t.cells[sp.r1 + ((q - 1) \div w) + 1][sp.c1 + ((q - 1) % w) + 1].text]

\* _Cell.merge(other): the span becomes one cell, the origin, whose content
\* is the content of the merged cells, one after the other.
DocxMerge(t, sp) ==
  LET c == t.cells[sp.r1 + 1][sp.c1 + 1]
  IN [t EXCEPT !.cells[sp.r1 + 1][sp.c1 + 1] = [c EXCEPT !.text = JoinLines(SpanTexts(t, sp))],
               !.merges = @ \cup {sp}]

\* ------------------------------------------------------------------ Table.insert_table
\* self is the Table object's attributes (a record o), self.df is heap
\* object 1.
SelfDf == 1

\* self.transform(): transform with the default data, self.df.copy()
TransformDefault(h, o) ==
  Let(DfCopy(h, SelfDf), LAMBDA cp: transform(cp.h, cp.r, o.header, o.index, o.keep_names))

\* insert_table without the row and the column of the totals
InsertTableWithoutTotals(w, o) ==
  Let(TransformDefault(w.h, o), LAMBDA tr:
    IF tr.err # "none" THEN Fail([w EXCEPT !.h = tr.h], tr.err)
    ELSE [w EXCEPT !.h = tr.h,
                   !.doc = Append(w.doc, NewTable(NRows(tr.h[tr.r]), NCols(tr.h[tr.r]))),
                   !.cur = Len(w.doc) + 1, !.r = 0])

\* (insert_table putting the new table in the place of self.table)
InsertTableReplacing(w, o) ==
  Let(TransformDefault(w.h, o), LAMBDA tr:
    IF tr.err # "none" THEN Fail([w EXCEPT !.h = tr.h], tr.err)
    ELSE Let(NewTable(NRows(tr.h[tr.r]) + (IF o.column_totals THEN 1 ELSE 0),
                      NCols(tr.h[tr.r]) + (IF o.row_totals THEN 1 ELSE 0)), LAMBDA t:
           IF w.cur = 0 THEN [w EXCEPT !.h = tr.h, !.doc = Append(w.doc, t), !.cur = Len(w.doc) + 1, !.r = 0]
           ELSE [w EXCEPT !.h = tr.h, !.doc[w.cur] = t, !.r = 0]))

\* Table.insert_table()
insert_table(w, o) ==
  Let(TransformDefault(w.h, o), LAMBDA tr:
    IF tr.err # "none" THEN Fail([w EXCEPT !.h = tr.h], tr.err)
    ELSE [w EXCEPT !.h = tr.h,
                   !.doc = Append(w.doc,
                                  NewTable(NRows(tr.h[tr.r]) + (IF o.column_totals THEN 1 ELSE 0),
                                           NCols(tr.h[tr.r]) + (IF o.row_totals THEN 1 ELSE 0))),
                   !.cur = Len(w.doc) + 1, !.r = 0])

\* ------------------------------------------------------------------ Table.style_index
\* The length of the run of labels equal to the one at position j (from 0)
\* of level n, as the merge loop computes it.
MergeSpanOf(ax, n, j) ==
  LET len == Len(ax.lab)
      diff == {k \in 0..(len - j - 2) : ax.lab[j + 2 + k][n] # ax.lab[j + 1][n]}
  IN IF diff = {} THEN len - j ELSE (CHOOSE k \in diff : \A m \in diff : k <= m) + 1

\* The merge of style_index at the cell (row, col) that starts a run: the
\* cells of span sp are merged, the text of the merged cell is reset to the
\* origin cell's, its font size to the origin's, and it is centred.
MergedAt(t, k, row, col, sp) ==
  Let(DocxMerge(t, sp), LAMBDA tm:
    SetCellAt(tm, row, col,
      [WithText(CellAt(tm, row, col), CellAt(t, row, col).text)
         EXCEPT !.size = CellAt(t, row, col).size,
                !.align = IF k.center_merge THEN "CENTER" ELSE @]))

\* One iteration of the loop over the cells of level n (from 0) of
\* style_index; s is [t, merge, mergestart, mergespan, err, log] and k the
\* keyword arguments with axis (0 or 1), the axis ax, offset and numcells.
StyleIndexCell(s, k, n, i) ==
  LET row == IF k.axis = 0 THEN i ELSE n
      col == IF k.axis = 0 THEN n ELSE i
      j == i - k.offset
      len == Len(k.ax.lab)
      inMerging == k.merge_indices /\ i >= k.offset
      equal == j < len - 1 /\ k.ax.lab[j + 1][n + 1] = k.ax.lab[j + 2][n + 1]
      starts == inMerging /\ j < len - 1 /\ ~s.merge /\ equal
      span == MergeSpanOf(k.ax, n + 1, j)
      erow == IF k.axis = 0 THEN i + span - 1 ELSE n
      ecol == IF k.axis = 0 THEN n ELSE i + span - 1
      sp == Span(row, col, erow, ecol)
      merge1 ==
        IF ~inMerging THEN s.merge
        ELSE IF j < len - 1
          THEN (IF ~s.merge /\ equal THEN TRUE
                ELSE IF s.merge /\ ~equal THEN FALSE ELSE s.merge)
        ELSE IF s.merge /\ i > s.mergestart /\ i < s.mergestart + s.mergespan - 1 THEN s.merge
        ELSE IF s.merge /\ i > s.mergestart /\ i = s.mergestart + s.mergespan - 1 THEN FALSE
        ELSE s.merge
  IN IF ~InTable(s.t, row, col) THEN [s EXCEPT !.err = "IndexError"]
     ELSE IF starts /\ ~CellAt(s.t, row, col).run THEN [s EXCEPT !.err = "IndexError"]
     ELSE IF starts /\ CellAt(s.t, row, col).size = 0 THEN [s EXCEPT !.err = "AttributeError"]
     ELSE IF starts /\ ~InTable(s.t, erow, ecol) THEN [s EXCEPT !.err = "IndexError"]
     ELSE Let(format_cell(IF starts THEN MergedAt(s.t, k, row, col, sp) ELSE s.t,
                          row, col, k.font_size, k.font_color, k.bold, k.fill, k.fill_color),
              LAMBDA fc:
                [s EXCEPT !.t = fc.t, !.err = fc.err, !.merge = merge1,
                          !.mergestart = IF starts THEN i ELSE @,
                          !.mergespan = IF starts THEN span ELSE @,
                          !.log = IF starts
                                    THEN Append(@, [axis |-> k.axis, level |-> n, span |-> sp])
                                    ELSE @])

RECURSIVE StyleIndexCells(_, _, _, _)
\* for i in range(numcells): ... on level n
StyleIndexCells(s, k, n, i) ==
  IF s.err # "none" \/ i >= k.numcells THEN s
  ELSE Let(StyleIndexCell(s, k, n, i), LAMBDA s1: StyleIndexCells(s1, k, n, i + 1))

RECURSIVE StyleIndexLoop(_, _, _)
\* for n in range(index.nlevels): merge = False; for i in range(numcells): ...
StyleIndexLoop(s, k, n) ==
  IF s.err # "none" \/ n >= NLevels(k.ax) THEN s
  ELSE Let(StyleIndexCells([s EXCEPT !.merge = FALSE], k, n, 0),
           LAMBDA s1: StyleIndexLoop(s1, k, n + 1))

\* The axis, offset and cell count style_index works with; data is
\* self.df.copy() and shown the result of self.transform().
StyleIndexArgs(data, shown, o, a) ==
  [axis |-> IF AxisIsColumns(a.axis) THEN 1 ELSE 0,
   ax |-> IF AxisIsColumns(a.axis) THEN data.cols ELSE data.idx,
   offset |-> IF AxisIsColumns(a.axis) THEN NCols(shown) - NCols(data)
              ELSE NRows(shown) - NRows(data),
   numcells |-> IF AxisIsColumns(a.axis)
                  THEN (IF o.row_totals THEN NCols(shown) + 1 ELSE NCols(shown))
                  ELSE (IF o.column_totals THEN NRows(shown) + 1 ELSE NRows(shown)),
   font_size |-> a.font_size, font_color |-> a.font_color,
   bold |-> a.bold, fill |-> a.fill, fill_color |-> a.fill_color,
   merge_indices |-> a.merge_indices, center_merge |-> a.center_merge]

\* Table.style_index(axis, fill, bold, font_size, font_color, fill_color,
\* merge_indices, center_merge); a is the keyword arguments.
style_index(w, o, a) ==
  IF w.cur = 0 THEN Fail(w, "AttributeError")
  ELSE
    Let(DfCopy(w.h, SelfDf), LAMBDA cp:
    Let(TransformDefault(cp.h, o), LAMBDA tr:
      IF tr.err # "none" THEN Fail([w EXCEPT !.h = tr.h], tr.err)
      ELSE IF ~(AxisIsColumns(a.axis) \/ AxisIsIndex(a.axis))
        THEN Fail([w EXCEPT !.h = tr.h], "ValueError")
      ELSE
        Let(StyleIndexArgs(cp.h[cp.r], tr.h[tr.r], o, a), LAMBDA k:
        Let(StyleIndexLoop([t |-> w.doc[w.cur], merge |-> FALSE, mergestart |-> 0,
                            mergespan |-> 0, err |-> "none", log |-> w.log], k, 0),
            LAMBDA s1:
              [w EXCEPT !.h = tr.h, !.doc[w.cur] = s1.t, !.log = s1.log,
                        !.err = s1.err, !.r = 0]))))

\* The keyword arguments of style_index when the caller gives only the axis
StyleIndexDefaults(o, axis) ==
  [axis |-> axis, font_size |-> 0, font_color |-> "none", bold |-> FALSE, fill |-> TRUE,
   fill_color |-> o.fill_color, merge_indices |-> o.merge_indices,
   center_merge |-> o.center_merge]

\* ------------------------------------------------------------------ Table.style_table
HeaderStyled(o) ==
  o.fill_header \/ o.bold_header \/ o.header_font_size # 0 \/ o.header_font_color # "none"

IndexStyled(o) ==
  o.fill_index \/ o.bold_index \/ o.index_font_size # 0 \/ o.index_font_color # "none"

HeaderStyle(o) ==
  [axis |-> "1", fill |-> o.fill_header, bold |-> o.bold_header,
   font_size |-> o.header_font_size, font_color |-> o.header_font_color,
   fill_color |-> o.fill_color, merge_indices |-> o.merge_indices,
   center_merge |-> o.center_merge]

IndexStyle(o) ==
  [axis |-> "0", fill |-> o.fill_index, bold |-> o.bold_index,
   font_size |-> o.index_font_size, font_color |-> o.index_font_color,
   fill_color |-> o.fill_color, merge_indices |-> o.merge_indices,
   center_merge |-> o.center_merge]

\* The keyword arguments of style_table: a boolean is "absent", "true" or
\* "false", a font size is -1 (absent), 0 (None) or the size, a colour is
\* "absent" or its kind.
NoKwargs ==
  [fill_header |-> "absent", bold_header |-> "absent", header_font_size |-> -1,
   header_font_color |-> "absent",
   fill_index |-> "absent", bold_index |-> "absent", index_font_size |-> -1,
   index_font_color |-> "absent", fill_color |-> "absent"]

\* kwargs.pop(name, default) of a boolean and of another argument
PopBool(v, d) == IF v = "absent" THEN d ELSE v = "true"

Pop(v, absent, d) == IF v = absent THEN d ELSE v

\* The local variables of style_table after its kwargs.pop lines, as the
\* attributes they stand in for.  header_font_color is popped under the
\* name 'header_font_size', which the line before has removed, so it is
\* always self.header_font_color.
StyleTableArgs(o, kw) ==
  [o EXCEPT !.fill_header = PopBool(kw.fill_header, @),
            !.bold_header = PopBool(kw.bold_header, @),
            !.header_font_size = Pop(kw.header_font_size, -1, @),
            !.header_font_color = @,
            !.fill_index = PopBool(kw.fill_index, @),
            !.bold_index = PopBool(kw.bold_index, @),
            !.index_font_size = Pop(kw.index_font_size, -1, @),
            !.index_font_color = Pop(kw.index_font_color, "absent", @),
            !.fill_color = Pop(kw.fill_color, "absent", @)]

\* Table.style_table(**kw) with the attributes o of self
style_table(w, o, kw) ==
  Let(StyleTableArgs(o, kw), LAMBDA a:
    IF HeaderStyled(a) /\ ~o.header THEN Fail(w, "ValueError")
    ELSE
      Then(IF o.header THEN style_index(w, o, HeaderStyle(a)) ELSE w, LAMBDA wh:
        IF IndexStyled(a) /\ ~o.index THEN Fail(wh, "ValueError")
        ELSE
          Then(IF o.index THEN style_index(wh, o, IndexStyle(a)) ELSE wh, LAMBDA wi:
            \* set_row_height(table, ...) on self.table
            IF wi.cur = 0 THEN Fail(wi, "AttributeError") ELSE wi)))

\* ------------------------------------------------------------------ Table.align_columns
\* An alignment argument: a string, a WD_ALIGN_PARAGRAPH member, or a value
\* of another type.
AlignStr(s) == [k |-> "str", v |-> s]
AlignEnum(m) == [k |-> "enum", v |-> m]
AlignOther == [k |-> "other", v |-> ""]

\* alignment.upper()
Upper(s) ==
  CASE s = "left" -> "LEFT"
    [] s = "center" -> "CENTER"
    [] s = "right" -> "RIGHT"
    [] s = "justify" -> "JUSTIFY"
    [] OTHER -> s

AlignMembers == {"LEFT", "CENTER", "RIGHT", "JUSTIFY"}

\* name = data.columns[j]: the position (from 0) of the DataFrame column
\* align_columns reads for table column j
AlignedColumn(j, col_offset) == j

\* The alignment align_columns chooses for table column j (from 0):
\* [al, err].  np.issubdtype(dtype, np.char) of a column that is not numeric
\* raises TypeError: np.char is a module, no dtype.
ColumnAlignment(data, a, j, col_offset) ==
  IF j < col_offset THEN [al |-> AlignStr("left"), err |-> "none"]
  ELSE IF j >= NCols(data) THEN [al |-> AlignStr("center"), err |-> "none"]
  ELSE LET c == AlignedColumn(j, col_offset) + 1
           name == KeyOf(data.cols, c)
       IN IF name \in DOMAIN a.align_col_map
            THEN [al |-> a.align_col_map[name], err |-> "none"]
          ELSE IF DTypeOf(data, c) = "number" THEN [al |-> a.align_num_cols, err |-> "none"]
          ELSE [al |-> AlignOther, err |-> "TypeError"]

\* p.alignment = ... on table.cell(i, j): [t, err]
AlignCell(t, i, j, alignment) ==
  IF ~InTable(t, i, j) THEN [t |-> t, err |-> "IndexError"]
  ELSE IF alignment.k = "enum"
    THEN [t |-> SetCellAt(t, i, j, [CellAt(t, i, j) EXCEPT !.align = alignment.v]), err |-> "none"]
  ELSE IF alignment.k = "str"
    THEN IF Upper(alignment.v) \in AlignMembers
           THEN [t |-> SetCellAt(t, i, j, [CellAt(t, i, j) EXCEPT !.align = Upper(alignment.v)]),
                 err |-> "none"]
         ELSE [t |-> t, err |-> "KeyError"]
  ELSE [t |-> t, err |-> "ValueError"]

RECURSIVE AlignRows(_, _, _, _, _)
\* for i in range(num_row_cells): ... on table column j with its alignment
AlignRows(s, k, alignment, j, i) ==
  IF s.err # "none" \/ i >= k.num_row_cells THEN s
  ELSE IF i < k.row_offset THEN AlignRows(s, k, alignment, j, i + 1)
  ELSE IF ~k.has_table THEN [s EXCEPT !.err = "AttributeError"]
  ELSE Let(AlignCell(s.t, i, j, alignment), LAMBDA s1: AlignRows(s1, k, alignment, j, i + 1))

RECURSIVE AlignLoop(_, _, _, _)
\* for j in range(num_col_cells): ...; for i in range(num_row_cells): ...
\* s is [t, err]; k holds data, the offsets and the cell counts, and whether
\* self.table is a table.
AlignLoop(s, k, a, j) ==
  IF s.err # "none" \/ j >= k.num_col_cells THEN s
  ELSE Let(ColumnAlignment(k.data, a, j, k.col_offset), LAMBDA ca:
         IF ca.err # "none" THEN [s EXCEPT !.err = ca.err]
         ELSE Let(AlignRows(s, k, ca.al, j, 0), LAMBDA s1: AlignLoop(s1, k, a, j + 1)))

\* The offsets and cell counts align_columns works with
AlignArgs(data, shown, o, has_table) ==
  [data |-> data,
   col_offset |-> NCols(shown) - NCols(data),
   row_offset |-> NRows(shown) - NRows(data),
   num_col_cells |-> IF o.row_totals THEN NCols(shown) + 1 ELSE NCols(shown),
   num_row_cells |-> IF o.column_totals THEN NRows(shown) + 1 ELSE NRows(shown),
   has_table |-> has_table]

\* Table.align_columns(align_num_cols, align_char_cols, align_dt_cols, align_col_map)
align_columns(w, o, a) ==
  Let(DfCopy(w.h, SelfDf), LAMBDA cp:
  Let(TransformDefault(cp.h, o), LAMBDA tr:
    IF tr.err # "none" THEN Fail([w EXCEPT !.h = tr.h], tr.err)
    ELSE
      Let(AlignArgs(cp.h[cp.r], tr.h[tr.r], o, w.cur # 0), LAMBDA k:
      Let(AlignLoop([t |-> IF w.cur = 0 THEN NewTable(0, 0) ELSE w.doc[w.cur], err |-> "none"],
                    k, a, 0),
          LAMBDA s1:
            IF w.cur = 0 THEN Fail([w EXCEPT !.h = tr.h], s1.err)
            ELSE [w EXCEPT !.h = tr.h, !.doc[w.cur] = s1.t, !.err = s1.err, !.r = 0]))))

AlignDefaults(o) ==
  [align_num_cols |-> o.align_num_cols, align_char_cols |-> o.align_char_cols,
   align_dt_cols |-> o.align_dt_cols, align_col_map |-> o.align_col_map]

\* ------------------------------------------------------------------ Table.convert
RECURSIVE WriteRow(_, _, _, _, _)
\* The cells of one row of data.values: c = table.cell(row,col);
\* c.text = ...; format_cell(c, font_size, font_color, ...).  s is [t, err].
WriteRow(s, data, o, row, col) ==
  IF s.err # "none" \/ col >= NCols(data) THEN s
  ELSE IF ~InTable(s.t, row, col) THEN [s EXCEPT !.err = "IndexError"]
  ELSE
    Let(SetCellAt(s.t, row, col,
                  [WithText(CellAt(s.t, row, col), ToText(data.vals[row + 1][col + 1]))
                     EXCEPT !.writes = @ + 1]),
        LAMBDA t1:
    Let(format_cell(t1, row, col, o.font_size, o.font_color, FALSE, FALSE, "none"),
        LAMBDA fc: WriteRow(fc, data, o, row, col + 1)))

RECURSIVE WriteLoop(_, _, _, _)
\* for (row,col),x in np.ndenumerate(data.values): ...
WriteLoop(s, data, o, row) ==
  IF s.err # "none" \/ row >= NRows(data) THEN s
  ELSE Let(WriteRow(s, data, o, row, 0), LAMBDA s1: WriteLoop(s1, data, o, row + 1))

\* data.fillna(self.na_rep)
NaFilled(f, na_rep) ==
  [f EXCEPT !.vals = [r \in 1..NRows(f) |-> [c \in 1..NCols(f) |-> FillNa(f.vals[r][c], na_rep)]]]

\* The data convert writes: self.df.copy(), its axes formatted, totalled,
\* its values formatted, transformed.  A method result [h, r, err].
ConvertData(h, o) ==
  Let(DfCopy(h, SelfDf), LAMBDA cp:
  Then(format_index(cp.h, cp.r, o.dtype_format, "0"), LAMBDA f0:
  Then(format_index(f0.h, f0.r, o.dtype_format, "1"), LAMBDA f1:
  Then(IF ~o.column_totals THEN f1
       ELSE add_totals(f1.h, f1.r, o.column_totals_label, o.column_totals_method,
                       o.column_totals_aggmap, "0"), LAMBDA ct:
  Then(IF ~o.row_totals THEN ct
       ELSE add_totals(ct.h, ct.r, o.row_totals_label, o.row_totals_method,
                       o.row_totals_aggmap, "1"), LAMBDA rt:
  Then(format_values(rt.h, rt.r, o.dtype_format, o.na_rep), LAMBDA fv:
  Then(transform(fv.h, fv.r, o.header, o.index, o.keep_names), LAMBDA tr:
    RetNew(tr.h, NaFilled(tr.h[tr.r], o.na_rep)))))))))

\* Table.convert()
\* (convert undoing what it did when it raises)
ConvertRollingBack(w, o) ==
  Let(Then(insert_table(w, o), LAMBDA w1:
      Let(ConvertData(w1.h, o), LAMBDA cd:
        IF cd.err # "none" THEN Fail([w1 EXCEPT !.h = cd.h], cd.err)
        ELSE
          Let(WriteLoop([t |-> w1.doc[w1.cur], err |-> "none"], cd.h[cd.r], o, 0), LAMBDA lp:
            IF lp.err # "none" THEN Fail([w1 EXCEPT !.h = cd.h, !.doc[w1.cur] = lp.t], lp.err)
            ELSE
              Then(style_table([w1 EXCEPT !.h = cd.h, !.doc[w1.cur] = lp.t], o, NoKwargs), LAMBDA w4:
              Then(align_columns(w4, o, AlignDefaults(o)), LAMBDA w5:
                [w5 EXCEPT !.r = cd.r]))))),
      LAMBDA res: IF res.err # "none" THEN [w EXCEPT !.h = res.h, !.err = res.err] ELSE res)

convert(w, o) ==
  Then(insert_table(w, o), LAMBDA w1:
  Let(ConvertData(w1.h, o), LAMBDA cd:
    IF cd.err # "none" THEN Fail([w1 EXCEPT !.h = cd.h], cd.err)
    ELSE
      Let(WriteLoop([t |-> w1.doc[w1.cur], err |-> "none"], cd.h[cd.r], o, 0), LAMBDA lp:
        IF lp.err # "none" THEN Fail([w1 EXCEPT !.h = cd.h, !.doc[w1.cur] = lp.t], lp.err)
        ELSE
          Then(style_table([w1 EXCEPT !.h = cd.h, !.doc[w1.cur] = lp.t], o, NoKwargs), LAMBDA w4:
          Then(align_columns(w4, o, AlignDefaults(o)), LAMBDA w5:
            [w5 EXCEPT !.r = cd.r])))))

\* ------------------------------------------------------------------ Handler.create_table (PowerPoint)
\* A pptx table: rows x cols cells.  A cell holds its text, its paragraph
\* alignment, the font settings its run got last ("header", "index", "text",
\* "totals") and how many times its text was set.
PptBlank == [text |-> "", align |-> "none", font |-> "none", writes |-> 0]

\* table.insert_table(rows=num_rows, cols=num_cols)
\* marks holds the attributes set on the cells' XML elements, as
\* <<row, column, attribute, value>>
PptTable(rows, cols) ==
  [rows |-> rows, cols |-> cols, cells |-> [i \in 1..rows |-> [j \in 1..cols |-> PptBlank]],
   marks |-> {}]

NoPptTable == PptTable(0, 0)

\* Whether table.cell(i, j) exists (i, j count from 0)
PptInTable(t, i, j) == i \in 0..(t.rows - 1) /\ j \in 0..(t.cols - 1)

\* c = table.cell(i, j); c.text = label or ' '; p.alignment = al (unless
\* al is "keep"); the run's font settings.  s is [t, err].
PptWrite(s, i, j, text, al, font) ==
  IF ~PptInTable(s.t, i, j) THEN [s EXCEPT !.err = "IndexError"]
  ELSE [s EXCEPT !.t.cells[i + 1][j + 1] =
          [text |-> IF text = "" THEN " " ELSE text,
           align |-> IF al = "keep" THEN @.align ELSE al,
           font |-> font,
           writes |-> @.writes + 1]]

\* c = table.cell(i, j); r = p.runs[0]; the totals font settings
PptTotalsFont(s, i, j) ==
  IF ~PptInTable(s.t, i, j) THEN [s EXCEPT !.err = "IndexError"]
  ELSE IF s.t.cells[i + 1][j + 1].writes = 0 THEN [s EXCEPT !.err = "IndexError"]
  ELSE [s EXCEPT !.t.cells[i + 1][j + 1].font = "totals"]

\* pptx.enum.text.PP_ALIGN.__dict__[v.upper()]
PptAlignMembers ==
  {"CENTER", "DISTRIBUTE", "JUSTIFY", "JUSTIFY_LOW", "LEFT", "RIGHT", "THAI_DISTRIBUTE", "MIXED"}

\* The column alignment map with its values as PP_ALIGN members
ConvertedAlignmentMap(column_alignment_map) ==
  IF \E key \in DOMAIN column_alignment_map : Upper(column_alignment_map[key]) \notin PptAlignMembers
    THEN [map |-> column_alignment_map, err |-> "KeyError"]
  ELSE [map |-> [key \in DOMAIN column_alignment_map |-> Upper(column_alignment_map[key])],
        err |-> "none"]

\* pd.concat([df, r_totals.to_frame()], axis=1): the column is appended; the
\* names of the column axis, which the two frames do not share, are dropped.
ConcatCol(f0, lab, col) ==
  Let(f0, LAMBDA f:
    MkFrame([r \in 1..NRows(f) |-> Append(f.vals[r], col[r])],
            f.idx,
            MkAxis(Append(f.cols.lab, <<lab>>), [k \in 1..NLevels(f.cols) |-> NoneV], f.cols.multi)))

\* df.T.fillna(0).agg({col: row_totals_agg_map[col] if col in row_totals_agg_map else np.sum})
RowTotals(f, row_totals_agg_map) ==
  [r \in 1..NRows(f) |->
    NumV(Agg(DictGet(row_totals_agg_map, KeyOf(f.idx, r), "sum"),
             [c \in 1..NCols(f) |-> FillNa(f.vals[r][c], NumV(0)).n]))]

\* The totals steps of create_table: df is rebound to the concatenation, a
\* new DataFrame.
PptColumnTotals(h, ref, o) ==
  IF ~o.column_totals THEN Ret(h, ref)
  ELSE RetNew(h, TotalsAppended(h[ref], o.column_totals_label, "sum", o.column_totals_agg_map))

PptRowTotals(h, ref, o) ==
  IF ~o.row_totals THEN Ret(h, ref)
  ELSE RetNew(h, ConcatCol(h[ref], o.row_totals_label, RowTotals(h[ref], o.row_totals_agg_map)))

\* str(col) of every label of an axis
StrAxis(ax) ==
  MkAxis([j \in 1..Len(ax.lab) |-> [n \in 1..NLevels(ax) |-> StrV(ToText(ax.lab[j][n]))]],
         ax.names, ax.multi)

\* numeric_cols: the labels, as strings, of df._get_numeric_data().columns
NumericCols(f) ==
  {KeyOf(StrAxis(f.cols), c) : c \in {d \in 1..NCols(f) : DTypeOf(f, d) = "number"}}

\* char_cols: the labels, as strings, of the other columns
CharCols(f) == {KeyOf(StrAxis(f.cols), c) : c \in 1..NCols(f)} \ NumericCols(f)

\* number_format.format(x) with the default '{:,.2f}', for 0 <= x < 1000
NumberText(v) == StrV(Str(v.n) \o ".00")

\* The value conversion of create_table on one cell of column c:
\* a numeric column is filled with 0 and formatted, another one is filled
\* with '' and decoded.
PptCellText(f, c, v) ==
  IF DTypeOf(f, c) = "number" THEN NumberText(FillNa(v, NumV(0)))
  ELSE IF IsNull(v) THEN StrV("")
  ELSE StrV(ToText(v))

\* df after the conversion loops: the values as strings (df.loc[:,col] = ...,
\* df[col] = ...), the labels of both axes as strings (df.columns = ...,
\* df.index = ...), the names kept.
PptConverted(f) ==
  MkFrame([r \in 1..NRows(f) |-> [c \in 1..NCols(f) |-> PptCellText(f, c, f.vals[r][c])]],
          StrAxis(f.idx), StrAxis(f.cols))

\* index.set_names(name, level=i) for i, name in enumerate(names)
SetNames(ax, names) ==
  [ax EXCEPT !.names = [k \in 1..NLevels(ax) |-> IF k <= Len(names) THEN StrV(names[k]) ELSE @[k]]]

\* df after index_names and header_names were applied (<< >> is None)
PptNamed(f, o) ==
  [f EXCEPT !.idx = SetNames(@, o.index_names), !.cols = SetNames(@, o.header_names)]

\* The alignment of the cells of DataFrame column col (from 0); "keep" when
\* none is set.
PptColumnAlignment(k, col) ==
  IF KeyOf(k.f.cols, col + 1) \in DOMAIN k.amap THEN k.amap[KeyOf(k.f.cols, col + 1)]
  ELSE IF KeyOf(k.f.cols, col + 1) \in k.numeric_cols THEN k.numeric_cols_alignment
  ELSE IF KeyOf(k.f.cols, col + 1) \in k.char_cols THEN k.char_cols_alignment
  ELSE "keep"

HasNames(ax) == \E n \in 1..NLevels(ax) : ax.names[n] # NoneV

\* label or ' ' of a label or name
LabelText(v) == IF v = NoneV THEN "" ELSE ToText(v)

RECURSIVE PptHeaderCells(_, _, _, _)
\* for i in range(num_cols): ... on header level level
PptHeaderCells(s, k, level, i) ==
  IF s.err # "none" \/ i >= k.num_cols THEN s
  ELSE IF k.index /\ i <= k.il - 1
    THEN Let(PptWrite(s, level, i,
                      IF HasNames(k.f.cols) THEN LabelText(k.f.cols.names[level + 1]) ELSE " ",
                      "keep", "header"),
             LAMBDA s1: PptHeaderCells(s1, k, level, i + 1))
  ELSE Let(PptWrite(s, level, i,
                    LabelText(k.f.cols.lab[(IF k.index THEN i - k.il ELSE i) + 1][level + 1]),
                    PptColumnAlignment(k, IF k.index THEN i - k.il ELSE i), "header"),
           LAMBDA s1: PptHeaderCells(s1, k, level, i + 1))

RECURSIVE PptHeaderLoop(_, _, _)
\* for level in range(df.columns.nlevels): for i in range(num_cols): ...
PptHeaderLoop(s, k, level) ==
  IF s.err # "none" \/ level >= k.hl THEN s
  ELSE Let(PptHeaderCells(s, k, level, 0), LAMBDA s1: PptHeaderLoop(s1, k, level + 1))

RECURSIVE PptIndexCells(_, _, _, _)
\* for i in range(num_rows): ... on index level level
PptIndexCells(s, k, level, i) ==
  IF s.err # "none" \/ i >= k.num_rows THEN s
  ELSE IF ~PptInTable(s.t, i, level) THEN [s EXCEPT !.err = "IndexError"]
  ELSE IF k.header /\ i = k.hl - 1
    THEN IF HasNames(k.f.idx)
           THEN Let(PptWrite(s, i, level, LabelText(k.f.idx.names[level + 1]), "keep", "header"),
                    LAMBDA s1: PptIndexCells(s1, k, level, i + 1))
         ELSE PptIndexCells(s, k, level, i + 1)
  ELSE IF k.header /\ i < k.hl THEN PptIndexCells(s, k, level, i + 1)
  ELSE Let(PptWrite(s, i, level,
                    LabelText(k.f.idx.lab[(IF k.header THEN i - k.hl ELSE i) + 1][level + 1]),
                    "keep", "index"),
           LAMBDA s1: PptIndexCells(s1, k, level, i + 1))

RECURSIVE PptIndexLoop(_, _, _)
\* for level in range(df.index.nlevels): for i in range(num_rows): ...
PptIndexLoop(s, k, level) ==
  IF s.err # "none" \/ level >= k.il THEN s
  ELSE Let(PptIndexCells(s, k, level, 0), LAMBDA s1: PptIndexLoop(s1, k, level + 1))

\* The table cell of the value at DataFrame position (row, col): <<i, j>>
BodyCellUnshifted(k, row, col) == <<row, col>>

BodyCell(k, row, col) ==
  <<IF k.header THEN row + k.hl ELSE row, IF k.index THEN col + k.il ELSE col>>

RECURSIVE PptBodyRow(_, _, _, _)
\* for col in range(df.shape[1]): ... on DataFrame row row, with
\* mat = df.fillna(' ').as_matrix()
PptBodyRow(s, k, row, col) ==
  IF s.err # "none" \/ col >= NCols(k.f) THEN s
  ELSE Let(PptWrite(s, BodyCell(k, row, col)[1], BodyCell(k, row, col)[2],
                    ToText(FillNa(k.f.vals[row + 1][col + 1], StrV(" "))),
                    PptColumnAlignment(k, col), "text"),
           LAMBDA s1: PptBodyRow(s1, k, row, col + 1))

RECURSIVE PptBodyLoop(_, _, _)
\* for row in range(df.shape[0]): for col in range(df.shape[1]): ...
PptBodyLoop(s, k, row) ==
  IF s.err # "none" \/ row >= NRows(k.f) THEN s
  ELSE Let(PptBodyRow(s, k, row, 0), LAMBDA s1: PptBodyLoop(s1, k, row + 1))

RECURSIVE PptColumnTotalsLoop(_, _, _)
\* for i in range(num_cols-df.index.nlevels): the cells of the last row
PptColumnTotalsLoop(s, k, i) ==
  IF s.err # "none" \/ i >= k.num_cols - k.il THEN s
  ELSE Let(PptTotalsFont(s, k.num_rows - 1, IF k.index THEN i + k.il ELSE i),
           LAMBDA s1: PptColumnTotalsLoop(s1, k, i + 1))

RECURSIVE PptRowTotalsLoop(_, _, _)
\* for i in range(num_rows-df.columns.nlevels): the cells of the last column
PptRowTotalsLoop(s, k, i) ==
  IF s.err # "none" \/ i >= k.num_rows - k.hl THEN s
  ELSE Let(PptTotalsFont(s, IF k.header THEN i + k.hl ELSE i, k.num_cols - 1),
           LAMBDA s1: PptRowTotalsLoop(s1, k, i + 1))

\* functions.format_cell(cell, ...) of utils/ppt on table.cell(i, j) of a
\* pptx table: [t, err].  The run of the cell gets the font settings.
ppt_format_cell(t, i, j, font_size, font_color, bold, fill, fill_color) ==
  IF fill /\ fill_color \notin {"enum", "tuple", "str"} THEN [t |-> t, err |-> "ValueError"]
  ELSE IF font_color \notin {"none", "tuple", "str"}
    THEN [t |-> [t EXCEPT !.cells[i + 1][j + 1].font = "cell"], err |-> "ValueError"]
  ELSE [t |-> [t EXCEPT !.cells[i + 1][j + 1].font = "cell"], err |-> "none"]

\* What the loops of create_table work with: the converted df, its level
\* counts, the table dimensions, the column classes and the alignments.
\* ------------------------------------------------------------------ create_table: column widths
\* pptx.util.Length._EMUS_PER_CM
EmusPerCm == 360000

RECURSIVE GCD(_, _)
GCD(a, b) == IF b = 0 THEN a ELSE GCD(b, a % b)

\* round(num / den) for num >= 0 and den > 0: the nearest integer; half is
\* how a product that is a half in exact arithmetic comes out of the
\* floating-point division and multiplication: "even" when it is computed
\* exactly (round() takes a half to the even integer), "up" or "down" when
\* it comes out just above or below.
Round(num, den, half) ==
  LET q == num \div den
      r == num % den
  IN IF 2 * r < den THEN q
     ELSE IF 2 * r > den THEN q + 1
     ELSE IF half = "up" THEN q + 1
     ELSE IF half = "down" THEN q
     ELSE IF q % 2 = 0 THEN q ELSE q + 1

\* round(col.width / w_columns * amount), the fraction in lowest terms
RoundedShare(width, w_columns, amount, half) ==
  Let(GCD(width, w_columns), LAMBDA g: Round((width \div g) * amount, w_columns \div g, half))

\* len(max([s for s in values], key=len))
MaxLen(texts) == MaxSeq([i \in 1..Len(texts) |-> Len(texts[i].s)])

\* int(np.ceil(min(max(len * 2 * (1 / size), min_col_w), max_col_w))) with
\* min_col_w = 4 and max_col_w = table_width / EmusPerCm / 2
ColumnCm(len, size, table_width) ==
  Let(IF 2 * len > 4 * size THEN (2 * len + size - 1) \div size ELSE 4, LAMBDA cm:
    IF cm * 2 * EmusPerCm <= table_width THEN cm
    ELSE (table_width + 2 * EmusPerCm - 1) \div (2 * EmusPerCm))

\* The widths the first loop gives the columns of the table, in EMU: an
\* index column from the labels of its level, a data column from its values
WidthsByText(f, o, table_width) ==
  Let(IF o.index THEN NLevels(f.idx) ELSE 0, LAMBDA il:
    [ix \in 1..(NCols(f) + il) |->
       EmusPerCm *
         (IF ix <= il
            THEN ColumnCm(MaxLen([r \in 1..NRows(f) |-> f.idx.lab[r][ix]]), o.index_size, table_width)
          ELSE ColumnCm(MaxLen([r \in 1..NRows(f) |-> f.vals[r][ix - il]]), o.text_size, table_width))])

\* (the widths left as they are)
KeptWidths(ws, table_width, half) == ws

\* if w_columns > table_width: every column is reduced by its share of the overflow
ReducedWidths(ws, table_width, half) ==
  Let(SumSeq(ws), LAMBDA w_columns:
    IF w_columns > table_width
      THEN [ix \in 1..Len(ws) |-> ws[ix] - RoundedShare(ws[ix], w_columns, w_columns - table_width, half)]
    ELSE ws)

\* if w_columns < table_width: every column is extended by its share of the deficit
ExtendedWidths(ws, table_width, half) ==
  Let(SumSeq(ws), LAMBDA w_columns:
    IF w_columns < table_width
      THEN [ix \in 1..Len(ws) |-> ws[ix] + RoundedShare(ws[ix], w_columns, table_width - w_columns, half)]
    ELSE ws)

\* The column widths create_table leaves
ColumnWidths(f, o, table_width, half) ==
  ExtendedWidths(ReducedWidths(WidthsByText(f, o, table_width), table_width, half), table_width, half)

PptArgs(f, numeric_cols, char_cols, amap, o) ==
  [f |-> f, header |-> o.header, index |-> o.index,
   hl |-> NLevels(f.cols), il |-> NLevels(f.idx),
   num_rows |-> NRows(f) + (IF o.header THEN NLevels(f.cols) ELSE 0),
   num_cols |-> NCols(f) + (IF o.index THEN NLevels(f.idx) ELSE 0),
   numeric_cols |-> numeric_cols, char_cols |-> char_cols, amap |-> amap,
   numeric_cols_alignment |-> o.numeric_cols_alignment,
   char_cols_alignment |-> o.char_cols_alignment]

\* One entry mh of merge_header: [start, end, level, alignment], the columns
\* given by position; level -1 and alignment "" stand for a key the entry
\* does not have.  cells is the slice [start:end] of the cells of the row.
MergeHeader(s, k, mh) ==
  LET level == IF k.f.cols.multi /\ mh.level >= 0 THEN mh.level ELSE 0
      offset == IF k.index THEN k.il ELSE 0
      start == mh.start + offset
      end == mh.end + offset
      length == end - start + 1
      cells == {j \in 0..(k.num_cols - 1) : start <= j /\ j < end}
  IN IF level >= k.num_rows \/ cells = {} THEN [s EXCEPT !.err = "IndexError"]
     ELSE Let([s EXCEPT !.t.marks = @ \cup {<<level, start, "gridSpan", length>>}
                                      \cup {<<level, j, "hMerge", 1>> : j \in cells \ {start}}],
              LAMBDA s1:
                IF mh.alignment = "" THEN s1
                ELSE IF Upper(mh.alignment) \notin PptAlignMembers THEN [s1 EXCEPT !.err = "KeyError"]
                ELSE [s1 EXCEPT !.t.cells[level + 1][start + 1].align = Upper(mh.alignment)])

RECURSIVE MergeHeaderLoop(_, _, _, _)
\* for merge_header in iterator: ...
MergeHeaderLoop(s, k, iterator, n) ==
  IF s.err # "none" \/ n > Len(iterator) THEN s
  ELSE Let(MergeHeader(s, k, iterator[n]), LAMBDA s1: MergeHeaderLoop(s1, k, iterator, n + 1))

\* The table create_table fills: [t, err]
PptFilled(k, o) ==
  Then(IF o.header THEN PptHeaderLoop([t |-> PptTable(k.num_rows, k.num_cols), err |-> "none"], k, 0)
       ELSE [t |-> PptTable(k.num_rows, k.num_cols), err |-> "none"], LAMBDA hd:
  Then(IF o.header THEN MergeHeaderLoop(hd, k, o.merge_header, 1) ELSE hd, LAMBDA mg:
  Then(IF o.index THEN PptIndexLoop(mg, k, 0) ELSE mg, LAMBDA ix:
  Then(PptBodyLoop(ix, k, 0), LAMBDA bd:
  Then(IF o.column_totals THEN PptColumnTotalsLoop(bd, k, 0) ELSE bd, LAMBDA ct:
    IF o.row_totals THEN PptRowTotalsLoop(ct, k, 0) ELSE ct)))))

\* The result of create_table: the heap, whether a table was inserted, the
\* table, the df it was filled from and the exception raised.
PptResult(h, made, t, data, e) == [h |-> h, made |-> made, t |-> t, data |-> data, err |-> e]

\* Handler.create_table(table, df=h[ref], ...) with the keyword arguments o
create_table(h, ref, o) ==
  Let(ConvertedAlignmentMap(o.column_alignment_map), LAMBDA am:
    IF am.err # "none" THEN PptResult(h, FALSE, NoPptTable, h[ref], am.err)
    ELSE
      Let(PptColumnTotals(h, ref, o), LAMBDA ct:
      Let(PptRowTotals(ct.h, ct.r, o), LAMBDA rt:
        \* [(str(c1),str(c2)) for c1,c2 in ...] of a MultiIndex
        IF rt.h[rt.r].cols.multi /\ NLevels(rt.h[rt.r].cols) # 2
          THEN PptResult(rt.h, FALSE, NoPptTable, rt.h[rt.r], "ValueError")
        ELSE
          Let(PptNamed(PptConverted(rt.h[rt.r]), o), LAMBDA f:
          Let(PptArgs(f, NumericCols(rt.h[rt.r]), CharCols(rt.h[rt.r]), am.map, o), LAMBDA k:
          Let(PptFilled(k, o), LAMBDA fl:
            PptResult([rt.h EXCEPT ![rt.r] = f], TRUE, fl.t, f, fl.err)))))))

\* ------------------------------------------------------------------ state
VARIABLES
  df,      \* the caller's DataFrame (the one self.df refers to)
  df0,     \* that DataFrame as it was when it was handed over
  opt,     \* the attributes of the Table object / the keyword arguments of create_table
  ntables, \* the number of tables in the Word document
  cur,     \* which table of the document self.table is, 0 for None
  table,   \* the content of the table self.table refers to
  ret,     \* the DataFrame the last call returned
  err,     \* the exception the last call raised, "none" if it returned
  log,     \* the merges the last call made, in order
  last,    \* the last call and its keyword arguments
  ppt      \* the results of the calls of create_table, in order

vars == <<df, df0, opt, ntables, cur, table, ret, err, log, last, ppt>>

NoFrame == MkFrame(<< >>, MkAxis(<< >>, << >>, FALSE), MkAxis(<< >>, << >>, FALSE))

NoTable == NewTable(0, 0)

NoCall == [op |-> "none"]

\* ------------------------------------------------------------------ inputs
ColNames == <<"a", "b", "c", "d", "e">>

\* A numeric DataFrame of n rows and m columns with il index levels and hl
\* header levels.  The innermost level holds distinct labels (integers on
\* the index, strings on the columns), the outer levels group them in pairs.
\* A flat axis has one level; named gives every level a name; nan puts a
\* null at the first cell.
WordFrame(n, m, il, hl, named, nan) ==
  MkFrame([r \in 1..n |-> [c \in 1..m |-> IF nan /\ r = 1 /\ c = 1 THEN NaN ELSE NumV(3 * r + c)]],
          MkAxis([r \in 1..n |-> [k \in 1..il |->
                    IF k = il THEN NumV(r) ELSE StrV("g" \o Str((r + 1) \div 2))]],
                 [k \in 1..il |-> IF named THEN StrV("i" \o Str(k)) ELSE NoneV],
                 il > 1),
          MkAxis([c \in 1..m |-> [k \in 1..hl |->
                    IF k = hl THEN StrV(ColNames[c]) ELSE StrV("h" \o Str((c + 1) \div 2))]],
                 [k \in 1..hl |-> IF named THEN StrV("c" \o Str(k)) ELSE NoneV],
                 hl > 1))

NoAlignMap == [k \in {} |-> AlignStr("left")]

\* Table(doc, df): the attributes with their defaults
DefaultOptions ==
  [header |-> FALSE, index |-> FALSE, keep_names |-> "columns",
   na_rep |-> StrV(" "), dtype_format |-> NoFormat,
   font_size |-> 0, font_color |-> "none",
   column_totals |-> FALSE, column_totals_label |-> StrV("Total"),
   column_totals_method |-> "sum", column_totals_aggmap |-> EmptyDict,
   row_totals |-> FALSE, row_totals_label |-> StrV("Total"),
   row_totals_method |-> "sum", row_totals_aggmap |-> EmptyDict,
   fill_header |-> TRUE, bold_header |-> TRUE, header_font_size |-> 0,
   header_font_color |-> "none",
   fill_index |-> FALSE, bold_index |-> TRUE, index_font_size |-> 0,
   index_font_color |-> "none", fill_color |-> "tuple",
   merge_indices |-> TRUE, center_merge |-> TRUE,
   align_num_cols |-> AlignStr("center"), align_char_cols |-> AlignStr("left"),
   align_dt_cols |-> AlignStr("center"), align_col_map |-> NoAlignMap]

\* The caller made a DataFrame f and a Table(doc, f, ...) with attributes o,
\* or is about to call create_table(table, f, ...) with keyword arguments o.
Constructed(f, o) ==
  /\ df = f
  /\ df0 = f
  /\ opt = o
  /\ ntables = 0
  /\ cur = 0
  /\ table = NoTable
  /\ ret = NoFrame
  /\ err = "none"
  /\ log = << >>
  /\ last = NoCall
  /\ ppt = << >>

\* ------------------------------------------------------------------ calls of the Table methods
\* The state a call starts from: the heap holds self.df alone.
World == MkW(<<df>>, IF cur = 0 THEN << >> ELSE <<table>>, IF cur = 0 THEN 0 ELSE 1, 0, "none", << >>)

\* The state a call leaves: a table it added is one more table of the
\* document, and self.table is the table added last.
Leaves(w, call) ==
  /\ df' = w.h[SelfDf]
  /\ ntables' = ntables + (Len(w.doc) - (IF cur = 0 THEN 0 ELSE 1))
  /\ cur' = IF w.cur = 0 THEN 0
            ELSE IF Len(w.doc) > (IF cur = 0 THEN 0 ELSE 1) THEN ntables' ELSE cur
  /\ table' = IF w.cur = 0 THEN NoTable ELSE w.doc[w.cur]
  /\ ret' = IF w.r = 0 THEN NoFrame ELSE w.h[w.r]
  /\ err' = w.err
  /\ log' = w.log
  /\ last' = call
  /\ UNCHANGED <<df0, opt, ppt>>

\* A method taking data: the default data argument is self.df.copy().
DefaultData(h) == DfCopy(h, SelfDf)

\* The world after a method that returns a DataFrame
FromRet(w, res) == [w EXCEPT !.h = res.h, !.r = res.r, !.err = res.err]

\* The axis arguments add_totals is called with
AxisArgs == {"0", "1", "index", "columns"}

\* The label of the first column (axis 0) or row (axis 1) of f
FirstKey(f, axis) == IF AxisIsColumns(axis) THEN KeyOf(f.idx, 1) ELSE KeyOf(f.cols, 1)

\* The totals_method and totals_aggmap arguments add_totals is called with:
\* the defaults, or max with a map that gives the first column (row) min
TotalsArgs(f, axis) ==
  {[totals_method |-> "sum", totals_aggmap |-> EmptyDict],
   [totals_method |-> "max", totals_aggmap |-> [k \in {FirstKey(f, axis)} |-> "min"]]}

AddTotals ==
  \E axis \in AxisArgs :
    \E a \in TotalsArgs(df, axis) :
      \E w \in {Let(DefaultData(World.h), LAMBDA d:
                  FromRet(World, add_totals(d.h, d.r, StrV("Totals"), a.totals_method,
                                            a.totals_aggmap, axis)))} :
        Leaves(w, [op |-> "add_totals", axis |-> axis, totals_label |-> StrV("Totals"),
                   totals_method |-> a.totals_method, totals_aggmap |-> a.totals_aggmap])

Transform ==
  \E w \in {Let(DefaultData(World.h), LAMBDA d:
              FromRet(World, transform(d.h, d.r, opt.header, opt.index, opt.keep_names)))} :
    Leaves(w, [op |-> "transform"])

FormatIndex ==
  \E axis \in {"0", "1"} :
    \E w \in {Let(DefaultData(World.h), LAMBDA d:
                FromRet(World, format_index(d.h, d.r, opt.dtype_format, axis)))} :
      Leaves(w, [op |-> "format_index", axis |-> axis])

FormatValues ==
  \E w \in {Let(DefaultData(World.h), LAMBDA d:
              FromRet(World, format_values(d.h, d.r, opt.dtype_format, opt.na_rep)))} :
    Leaves(w, [op |-> "format_values"])

\* The axis arguments a caller may give: 0, 1, 'index', 'columns' and two
\* values that are no axis
AxisValues == {"0", "1", "index", "columns", "2", "rows"}

\* add_totals(axis=...) with the other arguments at their defaults
AddTotalsAxis ==
  \E axis \in AxisValues :
    \E w \in {Let(DefaultData(World.h), LAMBDA d:
                FromRet(World, add_totals(d.h, d.r, StrV("Total"), "sum", EmptyDict, axis)))} :
      Leaves(w, [op |-> "add_totals", axis |-> axis])

\* format_index(axis=...)
FormatIndexAxis ==
  \E axis \in AxisValues :
    \E w \in {Let(DefaultData(World.h), LAMBDA d:
                FromRet(World, format_index(d.h, d.r, opt.dtype_format, axis)))} :
      Leaves(w, [op |-> "format_index", axis |-> axis])

\* style_index(axis=...)
StyleIndexAxis ==
  \E axis \in AxisValues :
    \E w \in {style_index(World, opt, StyleIndexDefaults(opt, axis))} :
      Leaves(w, [op |-> "style_index", axis |-> axis])

\* transform(header=..., index=..., keep_names=...)
TransformWith ==
  \E hd \in BOOLEAN, ix \in BOOLEAN, kn \in {"index", "columns", "rows"} :
    \E w \in {Let(DefaultData(World.h), LAMBDA d: FromRet(World, transform(d.h, d.r, hd, ix, kn)))} :
      Leaves(w, [op |-> "transform", header |-> hd, index |-> ix, keep_names |-> kn])

InsertTable ==
  /\ ntables < MaxTables
  /\ \E w \in {insert_table(World, opt)} : Leaves(w, [op |-> "insert_table"])

StyleIndex ==
  \E axis \in {"0", "1"} :
    \E w \in {style_index(World, opt, StyleIndexDefaults(opt, axis))} :
      Leaves(w, [op |-> "style_index", axis |-> axis, kw |-> StyleIndexDefaults(opt, axis)])

\* style_index called with an axis, fill and fill_color
StyleIndexKwargs(o) ==
  {[StyleIndexDefaults(o, axis) EXCEPT !.fill = f, !.fill_color = c]
     : axis \in {"0", "1", "2"}, f \in BOOLEAN, c \in {"tuple", "other"}}

StyleIndexWith ==
  \E kw \in StyleIndexKwargs(opt) :
    \E w \in {style_index(World, opt, kw)} :
      Leaves(w, [op |-> "style_index", axis |-> kw.axis, kw |-> kw])

\* The keyword arguments format_cell is called with
CellKwargs ==
  {[font_size |-> 0, font_color |-> fc, bold |-> FALSE, fill |-> f, fill_color |-> c]
     : fc \in {"none"}, f \in BOOLEAN, c \in ColorKinds}

\* docFunctions.format_cell(self.table.cell(0, 0), **kw)
FormatCell ==
  /\ cur > 0
  /\ InTable(table, 0, 0)
  /\ \E kw \in CellKwargs :
       \E fc \in {format_cell(table, 0, 0, kw.font_size, kw.font_color, kw.bold, kw.fill,
                              kw.fill_color)} :
         Leaves([World EXCEPT !.doc[1] = fc.t, !.err = fc.err], [op |-> "format_cell", kw |-> kw])

\* functions.format_cell(cell, **kw) of utils/ppt on the cell of a pptx
\* table of one cell
PptFormatCell ==
  /\ Len(ppt) < MaxCalls
  /\ \E kw \in CellKwargs :
       \E fc \in {ppt_format_cell(PptTable(1, 1), 0, 0, kw.font_size, kw.font_color, kw.bold,
                                  kw.fill, kw.fill_color)} :
         /\ ppt' = Append(ppt, [made |-> TRUE, t |-> fc.t, data |-> NoFrame, err |-> fc.err])
         /\ err' = fc.err
         /\ last' = [op |-> "ppt_format_cell", kw |-> kw]
  /\ UNCHANGED <<df, df0, opt, ntables, cur, table, ret, log>>

StyleTable ==
  \E w \in {style_table(World, opt, NoKwargs)} : Leaves(w, [op |-> "style_table", kw |-> NoKwargs])

\* style_table called with one keyword argument
StyleTableKwargs ==
  {[NoKwargs EXCEPT !.fill_header = "true"], [NoKwargs EXCEPT !.bold_header = "false"],
   [NoKwargs EXCEPT !.header_font_size = 9], [NoKwargs EXCEPT !.header_font_color = "tuple"],
   [NoKwargs EXCEPT !.fill_index = "true"], [NoKwargs EXCEPT !.bold_index = "false"],
   [NoKwargs EXCEPT !.index_font_size = 9], [NoKwargs EXCEPT !.index_font_color = "tuple"]}

StyleTableWith ==
  \E kw \in StyleTableKwargs :
    \E w \in {style_table(World, opt, kw)} : Leaves(w, [op |-> "style_table", kw |-> kw])

AlignColumns ==
  \E w \in {align_columns(World, opt, AlignDefaults(opt))} : Leaves(w, [op |-> "align_columns"])

\* align_columns called with one keyword argument: a default alignment, or
\* an align_col_map with one entry for a column of the DataFrame f
AlignKwargs(o, f) ==
  {[AlignDefaults(o) EXCEPT !.align_num_cols = v] : v \in {AlignStr("middle"), AlignOther, AlignEnum("RIGHT")}}
  \cup {[AlignDefaults(o) EXCEPT !.align_char_cols = AlignStr("middle")]}
  \cup {[AlignDefaults(o) EXCEPT !.align_col_map = [k \in {KeyOf(f.cols, c)} |-> v]]
          : c \in 1..NCols(f), v \in {AlignStr("middle"), AlignStr("right"), AlignOther}}

AlignColumnsWith ==
  \E a \in AlignKwargs(opt, df) :
    \E w \in {align_columns(World, opt, a)} : Leaves(w, [op |-> "align_columns", kw |-> a])

Convert ==
  /\ ntables < MaxTables
  /\ \E w \in {convert(World, opt)} : Leaves(w, [op |-> "convert"])

Next ==
  \/ AddTotals
  \/ Transform
  \/ FormatIndex
  \/ FormatValues
  \/ InsertTable
  \/ StyleIndex
  \/ StyleTable
  \/ AlignColumns
  \/ Convert

\* ------------------------------------------------------------------ calls of Handler.create_table
\* create_table(table, df, ...): the defaults of the keyword arguments
\* (<< >> is None for header_names, index_names and merge_header)
NoPptAlignMap == [k \in {} |-> "left"]

CreateTableDefaults ==
  [header |-> TRUE, index |-> TRUE, header_names |-> << >>, index_names |-> << >>,
   column_totals |-> FALSE, row_totals |-> FALSE,
   column_totals_agg_map |-> EmptyDict, row_totals_agg_map |-> EmptyDict,
   column_totals_label |-> StrV("Total"), row_totals_label |-> StrV("Total"),
   numeric_cols_alignment |-> "CENTER", char_cols_alignment |-> "LEFT",
   column_alignment_map |-> NoPptAlignMap, merge_header |-> << >>]

\* The caller calls create_table with the DataFrame df and the keyword
\* arguments opt; the heap holds df alone.
CreateTable ==
  /\ Len(ppt) < MaxCalls
  /\ \E res \in {create_table(<<df>>, 1, opt)} :
       /\ df' = res.h[1]
       /\ ppt' = Append(ppt, [made |-> res.made, t |-> res.t, data |-> res.data, err |-> res.err])
       /\ err' = res.err
       /\ last' = [op |-> "create_table"]
  /\ UNCHANGED <<df0, opt, ntables, cur, table, ret, log>>

\* create_table called with a column_alignment_map of one entry, for a
\* column of the DataFrame or for a name it does not have
PptAlignKwargs ==
  {[CreateTableDefaults EXCEPT !.index = ix, !.column_alignment_map = [k \in {ScalarKey(StrV(n))} |-> v]]
     : ix \in BOOLEAN, n \in {"a", "z"}, v \in {"right", "middle"}}

CreateTableWith ==
  /\ Len(ppt) < MaxCalls
  /\ \E kw \in PptAlignKwargs :
       \E res \in {create_table(<<df>>, 1, kw)} :
         /\ df' = res.h[1]
         /\ ppt' = Append(ppt, [made |-> res.made, t |-> res.t, data |-> res.data, err |-> res.err])
         /\ err' = res.err
         /\ last' = [op |-> "create_table", kw |-> kw]
  /\ UNCHANGED <<df0, opt, ntables, cur, table, ret, log>>

\* The placeholders create_table fills: their widths in EMU
TableWidths == {5000001, 9144000}

\* create_table called with a placeholder of a width, with or without the
\* index, with a text size
SizedKwargs ==
  {[CreateTableDefaults EXCEPT !.index = ix] @@ [index_size |-> 9, text_size |-> ts]
     : ix \in BOOLEAN, ts \in {1, 9}}

CreateTableSized ==
  /\ Len(ppt) < MaxCalls
  /\ \E kw \in SizedKwargs, table_width \in TableWidths, half \in {"even", "up", "down"} :
       \E res \in {create_table(<<df>>, 1, kw)} :
         /\ df' = res.h[1]
         /\ ppt' = Append(ppt, [made |-> res.made, t |-> res.t, data |-> res.data, err |-> res.err,
                                table_width |-> table_width,
                                text_widths |-> IF res.err = "none"
                                                  THEN WidthsByText(res.data, kw, table_width)
                                                ELSE << >>,
                                widths |-> IF res.err = "none"
                                             THEN ColumnWidths(res.data, kw, table_width, half)
                                           ELSE << >>])
         /\ err' = res.err
         /\ last' = [op |-> "create_table", kw |-> kw]
  /\ UNCHANGED <<df0, opt, ntables, cur, table, ret, log>>

\* create_table called with a merge_header of one entry, for every pair of
\* columns start <= end of the DataFrame f
MergeKwargs(f) ==
  {[CreateTableDefaults EXCEPT !.index = ix,
                               !.merge_header = <<[start |-> st, end |-> en, level |-> lv,
                                                   alignment |-> al]>>]
     : ix \in BOOLEAN, st \in 0..(NCols(f) - 1), en \in 0..(NCols(f) - 1),
       lv \in {-1, 1}, al \in {"", "center"}}

CreateTableMerging ==
  /\ Len(ppt) < MaxCalls
  /\ \E kw \in MergeKwargs(df) :
       /\ kw.merge_header[1].start <= kw.merge_header[1].end
       /\ \E res \in {create_table(<<df>>, 1, kw)} :
            /\ df' = res.h[1]
            /\ ppt' = Append(ppt, [made |-> res.made, t |-> res.t, data |-> res.data, err |-> res.err])
            /\ err' = res.err
            /\ last' = [op |-> "create_table", kw |-> kw]
  /\ UNCHANGED <<df0, opt, ntables, cur, table, ret, log>>

NextHandler == CreateTable

\* ------------------------------------------------------------------ Spec: the life of one Table object
SpecFrames ==
  {WordFrame(MaxRows, MaxCols, lv, lv, TRUE, TRUE) : lv \in {1, MaxLevels}}

SpecOptions ==
  {[DefaultOptions EXCEPT !.header = hi, !.index = hi, !.column_totals = tot, !.row_totals = tot,
                          !.font_size = fs, !.dtype_format = fmt]
     : hi \in BOOLEAN, tot \in BOOLEAN, fs \in {0, 9}, fmt \in {NoFormat, NumberFormat("%")}}

Init == \E f \in SpecFrames, o \in SpecOptions : Constructed(f, o)

Spec == Init /\ [][Next]_vars

\* ------------------------------------------------------------------ SpecTotals: add_totals on every shape of DataFrame
\* The DataFrames add_totals is called on: every size, flat and MultiIndex
\* axes, with and without level names, with and without a null.
TotalsFrames ==
  {WordFrame(n, m, il, hl, named, nan) :
     n \in 1..MaxRows, m \in 1..MaxCols, il \in 1..MaxLevels, hl \in 1..MaxLevels,
     named \in BOOLEAN, nan \in BOOLEAN}

InitTotals == \E f \in TotalsFrames : Constructed(f, DefaultOptions)

NextTotals == AddTotals

SpecTotals == InitTotals /\ [][NextTotals]_vars

\* ------------------------------------------------------------------ SpecTable: every combination of the layout options
\* The Table is made with every combination of header, index, column_totals,
\* row_totals and keep_names, with totals maps that give the first column
\* and the first row min, and an alignment map that gives the first column
\* 'right'; the other attributes have their defaults.
TableOptions(f) ==
  {[DefaultOptions EXCEPT !.header = hd, !.index = ix, !.column_totals = ct, !.row_totals = rt,
                          !.keep_names = kn,
                          !.column_totals_aggmap = [k \in {FirstKey(f, "0")} |-> "min"],
                          !.row_totals_aggmap = [k \in {FirstKey(f, "1")} |-> "min"],
                          !.align_col_map = [k \in {FirstKey(f, "0")} |-> AlignStr("right")]]
     : hd \in BOOLEAN, ix \in BOOLEAN, ct \in BOOLEAN, rt \in BOOLEAN, kn \in {"index", "columns"}}

InitTable == \E f \in SpecFrames : \E o \in TableOptions(f) : Constructed(f, o)

SpecTable == InitTable /\ [][Next]_vars

\* ------------------------------------------------------------------ SpecHandler: calls of create_table on one DataFrame
HandlerFrames ==
  {WordFrame(MaxRows, MaxCols, il, hl, named, TRUE) :
     il \in 1..MaxLevels, hl \in 1..MaxLevels, named \in BOOLEAN}

HandlerOptions ==
  {[CreateTableDefaults EXCEPT !.header = hd, !.index = ix, !.column_totals = ct,
                               !.row_totals = rt, !.index_names = inm, !.header_names = hnm,
                               !.column_alignment_map = am]
     : hd \in BOOLEAN, ix \in BOOLEAN, ct \in BOOLEAN, rt \in BOOLEAN,
       inm \in {<< >>, <<"I">>}, hnm \in {<< >>, <<"H">>},
       am \in {NoPptAlignMap, [k \in {ScalarKey(StrV("a"))} |-> "right"]}}

\* Row totals over a column MultiIndex are left out: the source marks them
\* as not done ("TODO: Create multiindex if needed").
InitHandler ==
  \E f \in HandlerFrames, o \in HandlerOptions :
    /\ ~(o.row_totals /\ f.cols.multi)
    /\ Constructed(f, o)

SpecHandler == InitHandler /\ [][NextHandler]_vars

\* ------------------------------------------------------------------ SpecFormat: convert with a dtype_format and an na_rep
\* The DataFrame with the labels of its index as strings
\* (pd.DataFrame(..., index=['1', '2']))
TextIndexed(f) ==
  [f EXCEPT !.idx.lab = [r \in 1..NRows(f) |-> [k \in 1..NLevels(f.idx) |->
                           StrV(ToText(f.idx.lab[r][k]))]]]

FormatOptions ==
  {[DefaultOptions EXCEPT !.header = hi, !.index = hi, !.column_totals = tot, !.row_totals = tot,
                          !.font_size = 9, !.dtype_format = fmt, !.na_rep = na]
     : hi \in BOOLEAN, tot \in BOOLEAN, fmt \in {NoFormat, NumberFormat("%")},
       na \in {StrV(" "), StrV("-")}}

InitFormat == \E f \in SpecFrames, o \in FormatOptions : Constructed(TextIndexed(f), o)

NextFormat == FormatValues \/ Convert

SpecFormat == InitFormat /\ [][NextFormat]_vars

\* ------------------------------------------------------------------ SpecStyle: style_table with and without styling
\* The Table is made with every combination of header, index and the
\* boolean styling attributes, with a font size.
StyleOptions ==
  {[DefaultOptions EXCEPT !.header = hd, !.index = ix, !.font_size = 9,
                          !.fill_header = fh, !.bold_header = bh,
                          !.fill_index = fi, !.bold_index = bi]
     : hd \in BOOLEAN, ix \in BOOLEAN, fh \in BOOLEAN, bh \in BOOLEAN,
       fi \in BOOLEAN, bi \in BOOLEAN}

InitStyle == \E f \in SpecFrames, o \in StyleOptions : Constructed(f, o)

NextStyle == InsertTable \/ Convert \/ StyleTable \/ StyleTableWith

SpecStyle == InitStyle /\ [][NextStyle]_vars

\* ------------------------------------------------------------------ SpecFill: cells formatted with and without a fill
FillOptions ==
  {[DefaultOptions EXCEPT !.header = hd, !.index = ix, !.font_size = fs]
     : hd \in BOOLEAN, ix \in BOOLEAN, fs \in {0, 9}}

InitFill ==
  \E o \in FillOptions : Constructed(WordFrame(MaxRows, MaxCols, MaxLevels, MaxLevels, TRUE, TRUE), o)

NextFill == Convert \/ StyleIndexWith \/ FormatCell \/ PptFormatCell

SpecFill == InitFill /\ [][NextFill]_vars

\* ------------------------------------------------------------------ SpecAlign: alignments that are no alignment
\* The DataFrame with strings in its first column
WithTextColumn(f) ==
  [f EXCEPT !.vals = [r \in 1..NRows(f) |-> [f.vals[r] EXCEPT ![1] = StrV("t" \o Str(r))]]]

AlignFrames ==
  {WordFrame(MaxRows, MaxCols, lv, lv, TRUE, FALSE) : lv \in {1, MaxLevels}}
  \cup {WithTextColumn(WordFrame(MaxRows, MaxCols, 1, 1, TRUE, FALSE))}

AlignOptions ==
  {[DefaultOptions EXCEPT !.header = hd, !.index = ix, !.font_size = 9] : hd \in BOOLEAN, ix \in BOOLEAN}

InitAlign == \E f \in AlignFrames, o \in AlignOptions : Constructed(f, o)

NextAlign == InsertTable \/ AlignColumnsWith \/ CreateTableWith

SpecAlign == InitAlign /\ [][NextAlign]_vars

\* ------------------------------------------------------------------ SpecAxis: every axis and keep_names argument
AxisOptions ==
  {[DefaultOptions EXCEPT !.header = hd, !.index = ix, !.font_size = 9] : hd \in BOOLEAN, ix \in BOOLEAN}

InitAxis ==
  \E o \in AxisOptions : Constructed(WordFrame(MaxRows, MaxCols, MaxLevels, MaxLevels, TRUE, FALSE), o)

NextAxis == InsertTable \/ AddTotalsAxis \/ FormatIndexAxis \/ StyleIndexAxis \/ TransformWith

SpecAxis == InitAxis /\ [][NextAxis]_vars

\* ------------------------------------------------------------------ SpecWidth: create_table in placeholders of several widths
WidthFrames ==
  {WordFrame(MaxRows, MaxCols, il, 1, TRUE, FALSE) : il \in 1..MaxLevels}
  \cup {WithTextColumn(WordFrame(MaxRows, MaxCols, 1, 1, TRUE, FALSE))}

InitWidth == \E f \in WidthFrames : Constructed(f, CreateTableDefaults)

NextWidth == CreateTableSized

SpecWidth == InitWidth /\ [][NextWidth]_vars

\* ------------------------------------------------------------------ SpecMerge: create_table with a merge_header
MergeFrames ==
  {WordFrame(MaxRows, MaxCols + 1, il, 1, TRUE, FALSE) : il \in 1..MaxLevels}
  \cup {WordFrame(MaxRows, MaxCols + 1, 1, 2, TRUE, FALSE)}

InitMerge == \E f \in MergeFrames : Constructed(f, CreateTableDefaults)

NextMerge == CreateTableMerging

SpecMerge == InitMerge /\ [][NextMerge]_vars

\* ------------------------------------------------------------------ SpecError: convert with arguments that make it raise
\* The Table is made with and without the header and the index, with a valid
\* and an invalid keep_names, fill colour, font colour and numeric alignment.
ErrorOptions ==
  {[DefaultOptions EXCEPT !.header = hd, !.index = ix, !.font_size = 9, !.keep_names = kn,
                          !.fill_color = fc, !.font_color = tc, !.align_num_cols = AlignStr(al)]
     : hd \in BOOLEAN, ix \in BOOLEAN, kn \in {"columns", "rows"}, fc \in {"tuple", "other"},
       tc \in {"none", "other"}, al \in {"center", "middle"}}

InitError == \E f \in SpecFrames, o \in ErrorOptions : Constructed(f, o)

NextError == InsertTable \/ Convert

SpecError == InitError /\ [][NextError]_vars

\* ------------------------------------------------------------------ C1
\* C1: whatever methods of the Table have been called, in whatever order,
\* with their default data argument, the DataFrame self.df refers to is the
\* one the Table was constructed with: same values, same labels, same names.
C1_DfUnchanged == df = df0

\* C1 witness: after a table was made, format_values returned a frame whose
\* values differ from those of self.df (the copy was formatted in place).
C1_Witness ==
  /\ last.op = "format_values"
  /\ err = "none"
  /\ cur > 0
  /\ opt.dtype_format # NoFormat
  /\ ret.vals # df.vals
  /\ df = df0

\* ------------------------------------------------------------------ C2
\* C2: after a call of create_table the caller's DataFrame is what it was
\* before the first call: same cell values, same labels, same names.
C2_CallerFrameUnchanged == last.op = "create_table" => df = df0

\* ------------------------------------------------------------------ C3
\* The texts and alignments of the cells of a pptx table
TextsAndAlignments(t) ==
  [i \in 1..t.rows |-> [j \in 1..t.cols |-> <<t.cells[i][j].text, t.cells[i][j].align>>]]

\* C3: the second of two consecutive calls of create_table with the same
\* DataFrame object and the same keyword arguments writes the same texts
\* and the same alignments as the first.
C3_SecondCallSame ==
  Len(ppt) >= 2 => TextsAndAlignments(ppt[2].t) = TextsAndAlignments(ppt[1].t)

\* ------------------------------------------------------------------ C4
\* The rows and columns the table of a DataFrame f has under the options o
ShownRows(f, o) ==
  NRows(f) + (IF o.header THEN NLevels(f.cols) ELSE 0) + (IF o.column_totals THEN 1 ELSE 0)

ShownCols(f, o) ==
  NCols(f) + (IF o.index THEN NLevels(f.idx) ELSE 0) + (IF o.row_totals THEN 1 ELSE 0)

\* C4: after convert, for every combination of header, index, column_totals,
\* row_totals and keep_names, the table insert_table made has the data rows
\* plus the header levels (if header) plus one (if column_totals) rows, and
\* the data columns plus the index levels (if index) plus one (if
\* row_totals) columns; no cell convert wrote was outside the table, and
\* every cell of the table was written exactly once.
C4_TableShape ==
  last.op = "convert" =>
    /\ err # "IndexError"
    /\ table.rows = ShownRows(df, opt)
    /\ table.cols = ShownCols(df, opt)
    /\ \A i \in 1..table.rows, j \in 1..table.cols : table.cells[i][j].writes = 1

\* C4 witness: convert ran with header, index and both totals on a
\* DataFrame with several header and index levels and filled a table that
\* is larger than the DataFrame in both directions.
C4_Witness ==
  /\ last.op = "convert"
  /\ opt.header /\ opt.index /\ opt.column_totals /\ opt.row_totals
  /\ NLevels(df.cols) > 1 /\ NLevels(df.idx) > 1
  /\ table.rows = NRows(df) + NLevels(df.cols) + 1
  /\ table.cols = NCols(df) + NLevels(df.idx) + 1
  /\ \A i \in 1..table.rows, j \in 1..table.cols : table.cells[i][j].writes = 1

\* ------------------------------------------------------------------ C5
\* The text create_table leaves in the cell of a value of the converted df
BodyText(v) == IF IsNull(v) \/ ToText(v) = "" THEN " " ELSE ToText(v)

\* C5: every table create_table inserted has len(df) + header levels (if
\* header) rows and len(df.columns) + index levels (if index) columns, df
\* being the DataFrame with its totals; the value at position (r, c) of df
\* is the text of cell (r + header levels, c + index levels); and no cell
\* the call used was outside the table.
C5_HandlerTableShape ==
  \A q \in 1..Len(ppt) :
    ppt[q].made =>
      LET f == ppt[q].data
          t == ppt[q].t
          ro == IF opt.header THEN NLevels(f.cols) ELSE 0
          co == IF opt.index THEN NLevels(f.idx) ELSE 0
      IN /\ ppt[q].err # "IndexError"
         /\ NRows(f) = NRows(df0) + (IF opt.column_totals THEN 1 ELSE 0)
         /\ NCols(f) = NCols(df0) + (IF opt.row_totals THEN 1 ELSE 0)
         /\ t.rows = NRows(f) + ro
         /\ t.cols = NCols(f) + co
         /\ \A r \in 1..NRows(f), c \in 1..NCols(f) :
              /\ t.cells[r + ro][c + co].text = BodyText(f.vals[r][c])
              /\ t.cells[r + ro][c + co].font \in {"text", "totals"}

\* C5 witness: create_table returned after inserting a table with header,
\* index and both totals for a DataFrame with a two-level index.
C5_Witness ==
  /\ Len(ppt) >= 1
  /\ ppt[1].made /\ ppt[1].err = "none"
  /\ opt.header /\ opt.index /\ opt.column_totals /\ opt.row_totals
  /\ NLevels(df0.idx) > 1
  /\ ppt[1].t.rows = NRows(df0) + 2
  /\ ppt[1].t.cols = NCols(df0) + NLevels(df0.idx) + 1

\* ------------------------------------------------------------------ C6
\* Whether positions a..b (from 1) of level n of an axis are a maximal run
\* of equal labels
MaximalRun(ax, n, a, b) ==
  /\ a <= b
  /\ \A j \in a..b : ax.lab[j][n] = ax.lab[a][n]
  /\ a = 1 \/ ax.lab[a - 1][n] # ax.lab[a][n]
  /\ b = Len(ax.lab) \/ ax.lab[b + 1][n] # ax.lab[a][n]

\* The spans of the table cells of the maximal runs of two or more labels
\* of the header (axis "1") or the index (axis "0") of f under the options o
RunSpans(f, o, axis) ==
  LET ax == IF axis = "1" THEN f.cols ELSE f.idx
      off == IF axis = "1" THEN (IF o.index THEN NLevels(f.idx) ELSE 0)
             ELSE (IF o.header THEN NLevels(f.cols) ELSE 0)
  IN {IF axis = "1" THEN Span(n - 1, off + a - 1, n - 1, off + b - 1)
      ELSE Span(off + a - 1, n - 1, off + b - 1, n - 1) :
        <<n, a, b>> \in {x \in (1..NLevels(ax)) \X (1..Len(ax.lab)) \X (1..Len(ax.lab)) :
                          x[2] < x[3] /\ MaximalRun(ax, x[1], x[2], x[3])}}

\* The merged spans of a table that lie along the header rows (axis "1") or
\* along the index columns (axis "0")
MergedAlong(t, axis) ==
  {sp \in t.merges : IF axis = "1" THEN sp.r1 = sp.r2 ELSE sp.c1 = sp.c2}

\* Whether convert wrote every cell of the table self.table refers to
Written == cur > 0 /\ \A i \in 1..table.rows, j \in 1..table.cols : table.cells[i][j].writes = 1

\* C6: after style_index(axis) with merge_indices on, on a table convert
\* has written, the merged spans along that axis are exactly the spans of
\* the maximal runs of two or more equal adjacent labels, level by level.
C6_RunsMerged ==
  (last.op = "style_index" /\ opt.merge_indices /\ Written)
    => MergedAlong(table, last.axis) = RunSpans(df, opt, last.axis)

\* ------------------------------------------------------------------ C7
\* The values of a row or column with nulls counted as 0
Filled(xs) == [i \in 1..Len(xs) |-> IF IsNull(xs[i]) THEN 0 ELSE xs[i].n]

\* The aggregation the arguments of the last add_totals call name for key
Chosen(key) ==
  IF key \in DOMAIN last.totals_aggmap THEN last.totals_aggmap[key] ELSE last.totals_method

\* C7: after add_totals returned, the total of each column (axis 0 or
\* 'index') or row (axis 1 or 'columns') is the totals_aggmap entry of its
\* label when there is one, totals_method otherwise, applied to the values
\* with nulls counted as 0.
C7_TotalsByMapOrMethod ==
  (last.op = "add_totals" /\ err = "none") =>
    IF last.axis \in {"0", "index"}
      THEN \A c \in 1..NCols(df) :
             ret.vals[NRows(df) + 1][c] =
               NumV(Agg(Chosen(KeyOf(df.cols, c)), Filled([r \in 1..NRows(df) |-> df.vals[r][c]])))
    ELSE \A r \in 1..NRows(df) :
           ret.vals[r][NCols(df) + 1] =
             NumV(Agg(Chosen(KeyOf(df.idx, r)), Filled(df.vals[r])))

\* C7 witness: add_totals returned column totals computed with a map that
\* names the first column, whose total is not what totals_method gives.
C7_Witness ==
  /\ last.op = "add_totals" /\ err = "none"
  /\ last.axis = "index"
  /\ KeyOf(df.cols, 1) \in DOMAIN last.totals_aggmap
  /\ ret.vals[NRows(df) + 1][1] = NumV(0)
  /\ ret.vals[NRows(df) + 1][1] #
       NumV(Agg(last.totals_method, Filled([r \in 1..NRows(df) |-> df.vals[r][1]])))

\* ------------------------------------------------------------------ C8
\* C8: after add_totals returned, the result is the input with one row
\* (axis 0) or one column (axis 1) more, in last position and labelled
\* totals_label; the original cells, labels, column order and index names
\* are those of the input.
C8_OneTotalsLineAdded ==
  (last.op = "add_totals" /\ err = "none") =>
    /\ \A r \in 1..NRows(df), c \in 1..NCols(df) : ret.vals[r][c] = df.vals[r][c]
    /\ ret.idx.names = df.idx.names
    /\ ret.cols.names = df.cols.names
    /\ IF last.axis \in {"0", "index"}
         THEN /\ NRows(ret) = NRows(df) + 1
              /\ NCols(ret) = NCols(df)
              /\ ret.cols.lab = df.cols.lab
              /\ SubSeq(ret.idx.lab, 1, NRows(df)) = df.idx.lab
              /\ ret.idx.lab[NRows(df) + 1][1] = last.totals_label
       ELSE /\ NRows(ret) = NRows(df)
            /\ NCols(ret) = NCols(df) + 1
            /\ ret.idx.lab = df.idx.lab
            /\ SubSeq(ret.cols.lab, 1, NCols(df)) = df.cols.lab
            /\ ret.cols.lab[NCols(df) + 1][1] = last.totals_label

\* C8 witness: add_totals returned row totals: one column more, the last,
\* labelled totals_label.
C8_Witness ==
  /\ last.op = "add_totals" /\ err = "none"
  /\ last.axis = "columns"
  /\ NCols(ret) = NCols(df) + 1
  /\ ret.cols.lab[NCols(ret)][1] = StrV("Totals")

\* ------------------------------------------------------------------ C9
\* C9: after convert with column_totals, the totals cell of each column is
\* the text of the aggregation column_totals_aggmap gives its name, or of
\* column_totals_method when the map has no entry for it.
C9_MappedColumnTotals ==
  (last.op = "convert" /\ opt.column_totals /\ Written) =>
    \A c \in 1..NCols(df) :
      CellAt(table, ShownRows(df, opt) - 1,
             (IF opt.index THEN NLevels(df.idx) ELSE 0) + c - 1).text =
        Str(Agg(DictGet(opt.column_totals_aggmap, KeyOf(df.cols, c), opt.column_totals_method),
                Filled([r \in 1..NRows(df) |-> df.vals[r][c]])))

\* ------------------------------------------------------------------ C10
\* The alignment the options give DataFrame column c (from 1)
WantedAlignment(f, o, c) ==
  IF KeyOf(f.cols, c) \in DOMAIN o.align_col_map THEN o.align_col_map[KeyOf(f.cols, c)]
  ELSE IF DTypeOf(f, c) = "number" THEN o.align_num_cols
  ELSE IF DTypeOf(f, c) = "datetime" THEN o.align_dt_cols
  ELSE o.align_char_cols

\* C10: after align_columns returned, every body cell of an index column is
\* aligned left, of the row-totals column centre, and of the column that
\* shows DataFrame column c as align_col_map or the dtype of c say.
C10_ColumnsAligned ==
  (last.op = "align_columns" /\ err = "none" /\ cur > 0) =>
    LET il == IF opt.index THEN NLevels(df.idx) ELSE 0
        hl == IF opt.header THEN NLevels(df.cols) ELSE 0
    IN \A i \in hl..(table.rows - 1), j \in 0..(table.cols - 1) :
         CellAt(table, i, j).align =
           IF j < il THEN "LEFT"
           ELSE IF j >= il + NCols(df) THEN "CENTER"
           ELSE Upper(WantedAlignment(df, opt, j - il + 1).v)

\* ------------------------------------------------------------------ C11
\* The header rows and the index columns of the table of self.df
HeaderRows == IF opt.header THEN NLevels(df.cols) ELSE 0

IndexCols == IF opt.index THEN NLevels(df.idx) ELSE 0

\* C11: after convert has written the table, the cell of every null value
\* of the DataFrame shows na_rep, whatever dtype_format is.
C11_NullsShownAsNaRep ==
  (last.op = "convert" /\ Written) =>
    \A r \in 1..NRows(df), c \in 1..NCols(df) :
      IsNull(df.vals[r][c]) =>
        CellAt(table, HeaderRows + r - 1, IndexCols + c - 1).text = ToText(opt.na_rep)

\* ------------------------------------------------------------------ C12
\* Whether the last call of style_table asked for styling of the header,
\* of the index: by keyword argument, or else by the Table's attribute
HeaderStylingRequested ==
  \/ PopBool(last.kw.fill_header, opt.fill_header)
  \/ PopBool(last.kw.bold_header, opt.bold_header)
  \/ Pop(last.kw.header_font_size, -1, opt.header_font_size) # 0
  \/ Pop(last.kw.header_font_color, "absent", opt.header_font_color) # "none"

IndexStylingRequested ==
  \/ PopBool(last.kw.fill_index, opt.fill_index)
  \/ PopBool(last.kw.bold_index, opt.bold_index)
  \/ Pop(last.kw.index_font_size, -1, opt.index_font_size) # 0
  \/ Pop(last.kw.index_font_color, "absent", opt.index_font_color) # "none"

\* C12: called on a table convert has written, style_table has raised
\* ValueError exactly when header is False and
\* header styling was requested, or index is False and index styling was
\* requested (the colours are valid, so nothing else raises ValueError).
C12_StyleGuards ==
  (last.op = "style_table" /\ Written) =>
    (err = "ValueError" <=>
       \/ (~opt.header /\ HeaderStylingRequested)
       \/ (~opt.index /\ IndexStylingRequested))

\* ------------------------------------------------------------------ C13
\* Whether the last call asked for a fill with a colour that is neither a
\* theme colour, a tuple nor a string
BadFill == last.kw.fill /\ last.kw.fill_color \notin {"enum", "tuple", "str"}

\* C13: format_cell of either package, called with a valid font colour, and
\* style_index, called with a valid axis on a table convert has written,
\* have raised ValueError exactly when a fill was asked for with a colour
\* of a wrong type; with fill off the colour raises nothing.
C13_FillColorChecked ==
  /\ (last.op \in {"format_cell", "ppt_format_cell"} /\ last.kw.font_color = "none")
       => (err = "ValueError" <=> BadFill)
  /\ (last.op = "style_index" /\ Written /\ last.axis \in {"0", "1"})
       => (err = "ValueError" <=> BadFill)

\* ------------------------------------------------------------------ C14
\* An alignment string that names no member of the alignment enum
NoMember(v) == v.k = "str" /\ Upper(v.v) \notin AlignMembers

\* C14: align_columns on a table ends with an error when the alignment its
\* arguments give a column of the DataFrame is a string that names no
\* member of the enum, and with ValueError when it is neither a string nor
\* an enum value; create_table ends with an error when a value of
\* column_alignment_map names no member.
C14_BadAlignmentFails ==
  /\ (last.op = "align_columns" /\ cur > 0) =>
       /\ (\E c \in 1..NCols(df) : NoMember(WantedAlignment(df, last.kw, c))) => err # "none"
       /\ (\E c \in 1..NCols(df) : WantedAlignment(df, last.kw, c).k = "other") => err = "ValueError"
  /\ (last.op = "create_table"
        /\ \E key \in DOMAIN last.kw.column_alignment_map :
             Upper(last.kw.column_alignment_map[key]) \notin PptAlignMembers) => err # "none"

C16_EachCallAddsATable ==
  [][(last'.op \in {"insert_table", "convert"}) =>
       /\ ntables' = ntables + 1
       /\ cur' = ntables'
       /\ (last'.op = "insert_table" => table' = NewTable(table'.rows, table'.cols))]_vars

\* insert_table was called on a Table that had a written table already, and
\* the document has two tables
C16_Witness ==
  /\ last.op = "insert_table"
  /\ ntables = 2
  /\ cur = 2
  /\ table = NewTable(table.rows, table.cols)

\* ------------------------------------------------------------------ C17
\* C17: after create_table the widths of the columns add up to the width of
\* the placeholder, give or take one EMU for every column, whether the
\* widths computed from the text were more or less than it, and every
\* column has a width above 0.
C17_WidthsFillTable ==
  \A n \in 1..Len(ppt) :
    ppt[n].err = "none" =>
      /\ SumSeq(ppt[n].widths) - ppt[n].table_width <= Len(ppt[n].widths)
      /\ ppt[n].table_width - SumSeq(ppt[n].widths) <= Len(ppt[n].widths)
      /\ \A ix \in 1..Len(ppt[n].widths) : ppt[n].widths[ix] > 0

\* A table whose columns overflowed the placeholder and were reduced, and
\* one whose columns did not fill it and were extended
C17_Witness ==
  /\ \E n \in 1..Len(ppt) :
       ppt[n].err = "none" /\ SumSeq(ppt[n].text_widths) > ppt[n].table_width
         /\ ppt[n].widths # ppt[n].text_widths
  /\ \E n \in 1..Len(ppt) :
       ppt[n].err = "none" /\ SumSeq(ppt[n].text_widths) < ppt[n].table_width
         /\ ppt[n].widths # ppt[n].text_widths

\* ------------------------------------------------------------------ C18
\* The row of the header a merge_header entry is applied to
MergedLevel(f, mh) == IF f.cols.multi /\ mh.level >= 0 THEN mh.level ELSE 0

\* C18: after create_table with a merge_header entry of start s and end e,
\* s < e, returned, the header cell of column s has gridSpan e - s + 1 and
\* each of the header cells of the columns s + 1 to e has hMerge, the
\* columns counted after the index columns when the index is shown.
C18_HeaderMerged ==
  (last.op = "create_table" /\ err = "none"
     /\ last.kw.merge_header[1].start < last.kw.merge_header[1].end) =>
    LET mh == last.kw.merge_header[1]
        t == ppt[Len(ppt)].t
        f == ppt[Len(ppt)].data
        offset == IF last.kw.index THEN NLevels(f.idx) ELSE 0
        level == MergedLevel(f, mh)
    IN /\ <<level, mh.start + offset, "gridSpan", mh.end - mh.start + 1>> \in t.marks
       /\ \A j \in (mh.start + 1)..mh.end : <<level, j + offset, "hMerge", 1>> \in t.marks

\* ------------------------------------------------------------------ C19
\* C19: in a table create_table returned, with column_totals every cell of
\* the last row under a data column, and with row_totals every cell of the
\* last column in a body row, has the totals font, whether or not the header
\* and the index are shown.
C19_TotalsFont ==
  \A n \in 1..Len(ppt) :
    (ppt[n].err = "none") =>
      LET t == ppt[n].t
          il == IF opt.index THEN NLevels(ppt[n].data.idx) ELSE 0
          hl == IF opt.header THEN NLevels(ppt[n].data.cols) ELSE 0
      IN /\ opt.column_totals =>
              \A j \in il..(t.cols - 1) : t.cells[t.rows][j + 1].font = "totals"
         /\ opt.row_totals =>
              \A i \in hl..(t.rows - 1) : t.cells[i + 1][t.cols].font = "totals"

\* ------------------------------------------------------------------ C20
\* The text convert writes in the first cell of a span of the header
\* (axis "1") or the index (axis "0"): the label of that level
OriginLabel(f, o, axis, sp) ==
  IF axis = "1"
    THEN ToText(f.cols.lab[sp.c1 - (IF o.index THEN NLevels(f.idx) ELSE 0) + 1][sp.r1 + 1])
  ELSE ToText(f.idx.lab[sp.r1 - (IF o.header THEN NLevels(f.cols) ELSE 0) + 1][sp.c1 + 1])

\* C20: style_index(axis) with merge_indices on, on a table convert has
\* written, whose axis is shown and has a run of equal labels, returns, also
\* when the Table has no font size; every run is then one merged cell that shows the
\* text its first cell had, alone, in the font size its first cell had.
C20_MergedCellKeepsOrigin ==
  (last.op = "style_index" /\ Written /\ last.kw.merge_indices /\ ~BadFill
     /\ ((last.axis = "0" /\ opt.index) \/ (last.axis = "1" /\ opt.header))
     /\ RunSpans(df, opt, last.axis) # {}) =>
    /\ err = "none"
    /\ \A sp \in RunSpans(df, opt, last.axis) :
         /\ sp \in table.merges
         /\ CellAt(table, sp.r1, sp.c1).text = OriginLabel(df, opt, last.axis, sp)
         /\ CellAt(table, sp.r1, sp.c1).size = opt.font_size

\* ------------------------------------------------------------------ C21
\* C21 as the spec states it: when convert raises, the document has no
\* table more than before the call and self.table is what it was.
C21_FailedConvertAddsNothing ==
  [][(last'.op = "convert" /\ err' # "none") =>
       (ntables' = ntables /\ cur' = cur /\ table' = table)]_vars

\* C21, amended: when convert raises in insert_table (keep_names is neither
\* 'index' nor 'columns') the document and self.table are as before the
\* call; when it raises later (a styling guard, a fill or font colour, an
\* alignment) the table the call inserted stays in the document and
\* self.table is that table.
C21_FailedConvertKeepsItsTable ==
  [][(last'.op = "convert" /\ err' # "none") =>
       IF opt.keep_names \notin {"index", "columns"}
         THEN ntables' = ntables /\ cur' = cur /\ table' = table
       ELSE ntables' = ntables + 1 /\ cur' = ntables'
              /\ table'.rows = ShownRows(df, opt) /\ table'.cols = ShownCols(df, opt)]_vars

\* convert raised twice, each time after it inserted its table
C21_Witness ==
  /\ last.op = "convert"
  /\ err = "ValueError"
  /\ opt.keep_names = "columns"
  /\ ntables = 2
  /\ cur = 2
====
